---- MODULE Spec2Model ----
(***************************************************************************)
(* chal: lowering of the syntax tree to bytecode (src/hir/mod.rs,          *)
(* src/ir/functions.rs) and the stack virtual machine that runs it         *)
(* (src/vm/mod.rs, src/vm/stack.rs, src/vm/types.rs), and the generator of *)
(* identifiers (src/util/uuid.rs).                                         *)
(*                                                                         *)
(* A panic (todo!, panic!, expect, an index out of range) is a fault: the  *)
(* operation returns no value and the machine stops.                       *)
(***************************************************************************)
EXTENDS Integers, Sequences, FiniteSets, TLC

VARIABLES
  profile,   \* "debug" | "release": the build's overflow checks
  phase,     \* "source" | "compiled" | "running" | "done" | "fault" | "stack"
             \* | "uuid"
  expr,      \* the syntax tree handed to compile, or NoExpr
  script,    \* VirtualMachine.script, a sequence of instructions
  pc,        \* VirtualMachine.pc (0-based)
  stack,     \* VirtualMachine.stack : Stack {pos, items}
  labels,    \* VirtualMachine.labels : Label -> offset
  locals,    \* VirtualMachine.locals : Local -> Value
  builtins,  \* VirtualMachine.builtins : the registered names
  heap,      \* the string buffers behind Value::String (Rc<RefCell<String>>)
  fault,     \* "none", or the message of the panic that ended the phase
  calls,     \* history: the positions of the Call instructions executed
  frames,    \* history: the positions of the Calls not yet matched by a Ret
  trace,     \* history: the positions of the instructions executed
  ops,       \* history (Stack on its own): the names of the operations applied
  ret,       \* history (Stack on its own): the last operation's argument and result
  COUNTER,   \* static COUNTER: AtomicU16 of src/util/uuid.rs
  EPOCH,     \* thread-local EPOCH: an Instant, in nanoseconds
  clock,     \* the last reading of Instant::now(), in nanoseconds
  ids,       \* history (Uuid on its own): the values Uuid::new returned
  threads    \* Uuid::new on several threads: per thread, where its call stands
             \* (at), the count it fetched, its own EPOCH, the ids it minted

vars == <<profile, phase, expr, script, pc, stack, labels, locals, builtins,
          heap, fault, calls, frames, trace, ops, ret, COUNTER, EPOCH, clock, ids,
          threads>>

(***************************************************************************)
(* Bounds of the model.                                                    *)
(***************************************************************************)
MaxSteps == 14      \* instructions one run may execute
MaxStackSize == 4   \* the largest Stack::new(size) explored on its own
MaxOps == 5         \* Stack operations applied in a row
MaxIds == 4         \* calls of Uuid::new in a row

(***************************************************************************)
(* f64.  A Number is an exact rational num/den (den > 0, reduced); den = 0 *)
(* encodes the non-finite values: num = 1 is +inf, -1 is -inf, 0 is NaN.   *)
(* Signed zero is not distinguished.                                       *)
(***************************************************************************)
Abs(i) == IF i < 0 THEN -i ELSE i

Sign(i) == IF i < 0 THEN -1 ELSE IF i > 0 THEN 1 ELSE 0

RECURSIVE Gcd(_, _)
Gcd(a, b) == IF b = 0 THEN a ELSE Gcd(b, a % b)

F(n, d) ==
  IF d = 0 THEN [num |-> Sign(n), den |-> 0]
  ELSE LET g == Gcd(Abs(n), Abs(d))
           s == IF d < 0 THEN -1 ELSE 1
       IN [num |-> s * (n \div g), den |-> s * (d \div g)]

FInt(i) == [num |-> i, den |-> 1]
NaN == [num |-> 0, den |-> 0]
Inf(s) == [num |-> s, den |-> 0]
IsNaN(a) == a.den = 0 /\ a.num = 0
IsInf(a) == a.den = 0 /\ a.num # 0
IsFinite(a) == a.den # 0

\* truncation toward zero of a finite value
Trunc(a) == Sign(a.num) * (Abs(a.num) \div a.den)

FNeg(a) == [num |-> -a.num, den |-> a.den]

\* f64 `+`
FAdd(a, b) ==
  IF IsNaN(a) \/ IsNaN(b) THEN NaN
  ELSE IF IsInf(a) /\ IsInf(b) THEN (IF a.num = b.num THEN a ELSE NaN)
  ELSE IF IsInf(a) THEN a
  ELSE IF IsInf(b) THEN b
  ELSE F(a.num * b.den + b.num * a.den, a.den * b.den)

\* f64 `-`
FSub(a, b) == FAdd(a, FNeg(b))

\* f64 `*`
FMul(a, b) ==
  IF IsNaN(a) \/ IsNaN(b) THEN NaN
  ELSE IF IsInf(a) \/ IsInf(b)
    THEN (IF a.num = 0 \/ b.num = 0 THEN NaN ELSE Inf(Sign(a.num) * Sign(b.num)))
  ELSE F(a.num * b.num, a.den * b.den)

\* f64 `/`
FDiv(a, b) ==
  IF IsNaN(a) \/ IsNaN(b) THEN NaN
  ELSE IF IsInf(a) THEN (IF IsInf(b) THEN NaN
                         ELSE Inf(a.num * (IF b.num < 0 THEN -1 ELSE 1)))
  ELSE IF IsInf(b) THEN FInt(0)
  ELSE IF b.num = 0 THEN (IF a.num = 0 THEN NaN ELSE Inf(Sign(a.num)))
  ELSE F(a.num * b.den, a.den * b.num)

\* f64 `%` (fmod): the remainder has the sign of the dividend
FRem(a, b) ==
  IF IsNaN(a) \/ IsNaN(b) \/ IsInf(a) THEN NaN
  ELSE IF IsInf(b) THEN a
  ELSE IF b.num = 0 THEN NaN
  ELSE FSub(a, FMul(FInt(Trunc(FDiv(a, b))), b))

RECURSIVE IPow(_, _)
IPow(x, n) == IF n = 0 THEN 1 ELSE x * IPow(x, n - 1)

\* f64::powf, for a finite base and a finite integer exponent (the only
\* exponents the programs explored hold: any other power has no rational
\* value)
FPow(a, b) ==
  LET n == Trunc(b)
  IN  IF n >= 0 THEN F(IPow(a.num, n), IPow(a.den, n))
      ELSE F(IPow(a.den, -n), IPow(a.num, -n))

\* f64 `==`
FEq(a, b) == ~IsNaN(a) /\ ~IsNaN(b) /\ a = b

\* f64 `<`, by f64::partial_cmp
FLt(a, b) ==
  /\ ~IsNaN(a) /\ ~IsNaN(b)
  /\ IF IsInf(a) /\ IsInf(b) THEN a.num < b.num
     ELSE IF IsInf(a) THEN a.num < 0
     ELSE IF IsInf(b) THEN b.num > 0
     ELSE a.num * b.den < b.num * a.den

\* a conversion to u64 that rounds to the nearest integer
AsU64Round(a) ==
  IF IsNaN(a) THEN 0
  ELSE IF a.num < 0 THEN 0
  ELSE IF IsInf(a) THEN IPow(2, 64) - 1
  ELSE (2 * a.num + a.den) \div (2 * a.den)

\* `as u64` of an f64: truncates toward zero and saturates (NaN and
\* negatives give 0, values above u64::MAX give u64::MAX)
AsU64(a) ==
  IF IsNaN(a) THEN 0
  ELSE IF a.num < 0 THEN 0
  ELSE IF IsInf(a) THEN IPow(2, 64) - 1
  ELSE Trunc(a)

\* `as u32` of an f64
AsU32(a) ==
  IF IsNaN(a) THEN 0
  ELSE IF a.num < 0 THEN 0
  ELSE IF IsInf(a) THEN IPow(2, 32) - 1
  ELSE Trunc(a)

RECURSIVE BitOr(_, _)
BitOr(a, b) ==
  IF a = 0 THEN b ELSE IF b = 0 THEN a
  ELSE (IF a % 2 = 1 \/ b % 2 = 1 THEN 1 ELSE 0) + 2 * BitOr(a \div 2, b \div 2)

RECURSIVE BitAnd(_, _)
BitAnd(a, b) ==
  IF a = 0 \/ b = 0 THEN 0
  ELSE (IF a % 2 = 1 /\ b % 2 = 1 THEN 1 ELSE 0) + 2 * BitAnd(a \div 2, b \div 2)

(***************************************************************************)
(* Value (src/vm/types.rs).  A String holds a reference into heap, the     *)
(* store of the Rc<RefCell<String>> buffers; a BuiltIn holds the name the  *)
(* function was registered under.                                          *)
(***************************************************************************)
Null == [tag |-> "Null"]
Addr(a) == [tag |-> "Addr", addr |-> a]
Bool(b) == [tag |-> "Bool", b |-> b]
Number(f) == [tag |-> "Number", f |-> f]
String(r) == [tag |-> "String", ref |-> r]
BuiltIn(n) == [tag |-> "BuiltIn", name |-> n]

\* Rc::new(RefCell::new(s)): a fresh buffer at the end of the heap
HeapAlloc(h, s) == [heap |-> Append(h, s), ref |-> Len(h) + 1]

\* an eq that compares two BuiltIn values by the name they were registered
\* under
ValueEqBuiltInByName(h, a, b) ==
  CASE a.tag = "Null" -> b.tag = "Null"
    [] a.tag = "Addr" -> b.tag = "Addr" /\ a.addr = b.addr
    [] a.tag = "Bool" -> b.tag = "Bool" /\ a.b = b.b
    [] a.tag = "Number" -> b.tag = "Number" /\ FEq(a.f, b.f)
    [] a.tag = "String" -> b.tag = "String" /\ h[a.ref] = h[b.ref]
    [] a.tag = "BuiltIn" -> b.tag = "BuiltIn" /\ a.name = b.name

\* impl PartialEq for Value (the derived == of Rc<RefCell<String>> compares
\* the buffers' contents)
ValueEq(h, a, b) ==
  CASE a.tag = "Null" -> b.tag = "Null"
    [] a.tag = "Addr" -> b.tag = "Addr" /\ a.addr = b.addr
    [] a.tag = "Bool" -> b.tag = "Bool" /\ a.b = b.b
    [] a.tag = "Number" -> b.tag = "Number" /\ FEq(a.f, b.f)
    [] a.tag = "String" -> b.tag = "String" /\ h[a.ref] = h[b.ref]
    [] a.tag = "BuiltIn" -> FALSE

\* a partial_cmp that takes two values that are not both Numbers for equal
PartialCmpEqualUnordered(a, b) ==
  IF a.tag = "Number" /\ b.tag = "Number"
  THEN (IF FLt(a.f, b.f) THEN "Less"
        ELSE IF FLt(b.f, a.f) THEN "Greater"
        ELSE IF FEq(a.f, b.f) THEN "Equal"
        ELSE "None")
  ELSE "Equal"

\* impl PartialOrd for Value: partial_cmp is Some only for two Numbers;
\* the result is "Less", "Equal", "Greater" or "None"
PartialCmp(a, b) ==
  IF a.tag = "Number" /\ b.tag = "Number"
  THEN (IF FLt(a.f, b.f) THEN "Less"
        ELSE IF FLt(b.f, a.f) THEN "Greater"
        ELSE IF FEq(a.f, b.f) THEN "Equal"
        ELSE "None")
  ELSE "None"

\* the operators <, <=, >, >= that PartialOrd derives from partial_cmp
ValueLt(a, b) == PartialCmp(a, b) = "Less"
ValueLtEq(a, b) == PartialCmp(a, b) \in {"Less", "Equal"}
ValueGt(a, b) == PartialCmp(a, b) = "Greater"
ValueGtEq(a, b) == PartialCmp(a, b) \in {"Greater", "Equal"}

(***************************************************************************)
(* Stack (src/vm/stack.rs).  items is indexed from 0 as the Vec is.  Every *)
(* operation yields [stack, item, fault]: fault is "none" when the         *)
(* operation returned Ok, and the panic's message when it did not return.  *)
(***************************************************************************)
StackNew(size) == [pos |-> 0, items |-> [i \in 0 .. size - 1 |-> Null]]

StackLen(s) == Cardinality(DOMAIN s.items)

StackPopUnchecked(s) ==
  IF s.pos = 0
  THEN [stack |-> s, item |-> Null, fault |-> "none"]
  ELSE LET actual == s.pos - 1
       IN [stack |-> [pos |-> s.pos - 1, items |-> [s.items EXCEPT ![actual] = Null]],
           item |-> s.items[actual], fault |-> "none"]

\* a pop that leaves the popped value in its slot
StackPopKeeping(s) ==
  IF s.pos = 0
  THEN [stack |-> s, item |-> Null, fault |-> "Stack underflow"]
  ELSE [stack |-> [s EXCEPT !.pos = s.pos - 1],
        item |-> s.items[s.pos - 1], fault |-> "none"]

StackPop(s) ==
  IF s.pos = 0
  THEN [stack |-> s, item |-> Null, fault |-> "Stack underflow"]
  ELSE LET actual == s.pos - 1
       IN [stack |-> [pos |-> s.pos - 1, items |-> [s.items EXCEPT ![actual] = Null]],
           item |-> s.items[actual], fault |-> "none"]

\* `self.items.len() - 1`, a usize subtraction: with no items it panics
\* under overflow checks and wraps without them, and the index that follows
\* is then out of range
TopIndexFault(s, prof) ==
  IF StackLen(s) > 0 THEN "none"
  ELSE IF prof = "debug" THEN "attempt to subtract with overflow"
  ELSE "index out of bounds"

\* a push that takes the last slot for an operand slot
StackPushFull(s, value, prof) ==
  IF TopIndexFault(s, prof) # "none"
  THEN [stack |-> s, item |-> Null, fault |-> TopIndexFault(s, prof)]
  ELSE IF s.pos >= StackLen(s)
  THEN [stack |-> s, item |-> Null, fault |-> "Stack overflow"]
  ELSE [stack |-> [pos |-> s.pos + 1, items |-> [s.items EXCEPT ![s.pos] = value]],
        item |-> Null, fault |-> "none"]

StackPushOverwrite(s, value, prof) ==
  IF TopIndexFault(s, prof) # "none"
  THEN [stack |-> s, item |-> Null, fault |-> TopIndexFault(s, prof)]
  ELSE IF s.pos >= StackLen(s) - 1
  THEN [stack |-> [s EXCEPT !.items[StackLen(s) - 1] = value],
        item |-> Null, fault |-> "none"]
  ELSE [stack |-> [pos |-> s.pos + 1, items |-> [s.items EXCEPT ![s.pos] = value]],
        item |-> Null, fault |-> "none"]

StackPush(s, value, prof) ==
  IF TopIndexFault(s, prof) # "none"
  THEN [stack |-> s, item |-> Null, fault |-> TopIndexFault(s, prof)]
  ELSE IF s.pos >= StackLen(s) - 1
  THEN [stack |-> s, item |-> Null, fault |-> "Stack overflow"]
  ELSE [stack |-> [pos |-> s.pos + 1, items |-> [s.items EXCEPT ![s.pos] = value]],
        item |-> Null, fault |-> "none"]

\* usize::saturating_sub
SaturatingSub(a, b) == IF a >= b THEN a - b ELSE 0

StackClear(s, size) ==
  [stack |-> [s EXCEPT !.pos = SaturatingSub(s.pos, size)],
   item |-> Null, fault |-> "none"]

StackPushTop(s, value, prof) ==
  IF TopIndexFault(s, prof) # "none"
  THEN [stack |-> s, item |-> Null, fault |-> TopIndexFault(s, prof)]
  ELSE [stack |-> [s EXCEPT !.items[StackLen(s) - 1] = value],
        item |-> Null, fault |-> "none"]

\* pop_top taking the value out of the reserved slot as pop does
StackPopTopClearing(s, prof) ==
  IF TopIndexFault(s, prof) # "none"
  THEN [stack |-> s, item |-> Null, fault |-> TopIndexFault(s, prof)]
  ELSE [stack |-> [s EXCEPT !.items[StackLen(s) - 1] = Null],
        item |-> s.items[StackLen(s) - 1], fault |-> "none"]

StackPopTop(s, prof) ==
  IF TopIndexFault(s, prof) # "none"
  THEN [stack |-> s, item |-> Null, fault |-> TopIndexFault(s, prof)]
  ELSE [stack |-> s, item |-> s.items[StackLen(s) - 1], fault |-> "none"]

(***************************************************************************)
(* Instruction (src/ir/instr.rs) and Step (src/vm/types.rs).  A Label and  *)
(* a Local are the Uuid they wrap.                                         *)
(***************************************************************************)
\* Nop, LdNull, LdTrue, LdFalse, Ret and the operators
Ins(op) == [op |-> op]
\* Label, Jmp, JmpEq .. JmpGtEq, Call
InsLabel(op, l) == [op |-> op, label |-> l]
\* LdLoc, StLoc
InsLocal(op, l) == [op |-> op, local |-> l]
\* LdImport, CallF
InsName(op, n) == [op |-> op, name |-> n]
LdStr(v) == [op |-> "LdStr", str |-> v]
LdF64(v) == [op |-> "LdF64", f |-> v]
LdAddr(v) == [op |-> "LdAddr", addr |-> v]

StepNext == [kind |-> "Next"]
StepJmp(to) == [kind |-> "Jmp", to |-> to]
StepJmpAddr(to) == [kind |-> "JmpAddr", addr |-> to]

(***************************************************************************)
(* VirtualMachine (src/vm/mod.rs).  vm is the machine's state as a record  *)
(* [pc, stack, script, labels, locals, builtins, heap, profile].  Running  *)
(* one instruction yields [step, stack, locals, heap, fault].              *)
(***************************************************************************)
Outcome(step, s, l, h) ==
  [step |-> step, stack |-> s, locals |-> l, heap |-> h, fault |-> "none"]

Panic(msg, s, l, h) ==
  [step |-> StepNext, stack |-> s, locals |-> l, heap |-> h, fault |-> msg]

\* the comparison written in a jmp_if! or run_log_op! invocation; `!=` is
\* PartialEq::ne, the negation of eq
Compare(op, h, a, b) ==
  CASE op = "==" -> ValueEq(h, a, b)
    [] op = "!=" -> ~ValueEq(h, a, b)
    [] op = "<" -> ValueLt(a, b)
    [] op = "<=" -> ValueLtEq(a, b)
    [] op = ">" -> ValueGt(a, b)
    [] op = ">=" -> ValueGtEq(a, b)

\* macro jmp_if!
JmpIf(to, vm, op) ==
  LET p1 == StackPop(vm.stack)
      p2 == StackPop(p1.stack)
      a == p1.item
      b == p2.item
  IN  IF p1.fault # "none" THEN Panic(p1.fault, p1.stack, vm.locals, vm.heap)
      ELSE IF p2.fault # "none" THEN Panic(p2.fault, p2.stack, vm.locals, vm.heap)
      ELSE IF Compare(op, vm.heap, a, b)
      THEN Outcome(StepJmp(to), p2.stack, vm.locals, vm.heap)
      ELSE Outcome(StepNext, p2.stack, vm.locals, vm.heap)

\* macro run_log_op!
RunLogOp(vm, op) ==
  LET p1 == StackPop(vm.stack)
      p2 == StackPop(p1.stack)
      a == p1.item
      b == p2.item
      q == StackPush(p2.stack, Bool(Compare(op, vm.heap, a, b)), vm.profile)
  IN  IF p1.fault # "none" THEN Panic(p1.fault, p1.stack, vm.locals, vm.heap)
      ELSE IF p2.fault # "none" THEN Panic(p2.fault, p2.stack, vm.locals, vm.heap)
      ELSE IF q.fault # "none" THEN Panic(q.fault, q.stack, vm.locals, vm.heap)
      ELSE Outcome(StepNext, q.stack, vm.locals, vm.heap)

\* the f64 operation written in a run_arith_op! invocation
Arith(op, a, b) ==
  CASE op = "+" -> FAdd(a, b)
    [] op = "-" -> FSub(a, b)
    [] op = "*" -> FMul(a, b)
    [] op = "/" -> FDiv(a, b)
    [] op = "%" -> FRem(a, b)
    [] op = "powf" -> FPow(a, b)

\* a run_arith_op! that pushes Null when an operand is not a Number
RunArithOpNull(vm, op) ==
  LET p1 == StackPop(vm.stack)
      p2 == StackPop(p1.stack)
      a == p1.item
      b == p2.item
      q == StackPush(p2.stack,
                     IF a.tag = "Number" /\ b.tag = "Number"
                     THEN Number(Arith(op, a.f, b.f)) ELSE Null, vm.profile)
  IN  IF p1.fault # "none" THEN Panic(p1.fault, p1.stack, vm.locals, vm.heap)
      ELSE IF p2.fault # "none" THEN Panic(p2.fault, p2.stack, vm.locals, vm.heap)
      ELSE IF q.fault # "none" THEN Panic(q.fault, q.stack, vm.locals, vm.heap)
      ELSE Outcome(StepNext, q.stack, vm.locals, vm.heap)

\* macro run_arith_op! (both arms)
RunArithOp(vm, op) ==
  LET p1 == StackPop(vm.stack)
      p2 == StackPop(p1.stack)
      a == p1.item
      b == p2.item
      q == StackPush(p2.stack, Number(Arith(op, a.f, b.f)), vm.profile)
  IN  IF p1.fault # "none" THEN Panic(p1.fault, p1.stack, vm.locals, vm.heap)
      ELSE IF p2.fault # "none" THEN Panic(p2.fault, p2.stack, vm.locals, vm.heap)
      ELSE IF ~(a.tag = "Number" /\ b.tag = "Number")
      THEN Panic("not yet implemented", p2.stack, vm.locals, vm.heap)
      ELSE IF q.fault # "none" THEN Panic(q.fault, q.stack, vm.locals, vm.heap)
      ELSE Outcome(StepNext, q.stack, vm.locals, vm.heap)

\* a u64 shift by 64 or more overflows: a panic under overflow checks, and
\* a shift by the amount's low six bits without them
ShiftOverflows(op, b) == op \in {"<<", ">>"} /\ b >= 64

\* the u64 operation written in a run_arith_op_fn! invocation (a left shift
\* drops the bits above the 64th; the values explored stay below them)
ArithFn(op, a, b) ==
  CASE op = "|" -> BitOr(a, b)
    [] op = "&" -> BitAnd(a, b)
    [] op = "<<" -> a * IPow(2, b % 64)
    [] op = ">>" -> a \div IPow(2, b % 64)

\* macro run_arith_op_fn!
RunArithOpFn(vm, op) ==
  LET p1 == StackPop(vm.stack)
      p2 == StackPop(p1.stack)
      a == AsU64(p1.item.f)
      b == AsU64(p2.item.f)
      c == FInt(ArithFn(op, a, b))
      q == StackPush(p2.stack, Number(c), vm.profile)
  IN  IF p1.fault # "none" THEN Panic(p1.fault, p1.stack, vm.locals, vm.heap)
      ELSE IF p2.fault # "none" THEN Panic(p2.fault, p2.stack, vm.locals, vm.heap)
      ELSE IF ~(p1.item.tag = "Number" /\ p2.item.tag = "Number")
      THEN Panic("not yet implemented", p2.stack, vm.locals, vm.heap)
      ELSE IF ShiftOverflows(op, b) /\ vm.profile = "debug"
      THEN Panic("attempt to shift with overflow", p2.stack, vm.locals, vm.heap)
      ELSE IF q.fault # "none" THEN Panic(q.fault, q.stack, vm.locals, vm.heap)
      ELSE Outcome(StepNext, q.stack, vm.locals, vm.heap)

\* run_ld advancing without the push
RunLdSkip(vm, value) == Outcome(StepNext, vm.stack, vm.locals, vm.heap)

\* VirtualMachine::run_ld
RunLd(vm, value) ==
  LET q == StackPush(vm.stack, value, vm.profile)
  IN  IF q.fault # "none" THEN Panic(q.fault, q.stack, vm.locals, vm.heap)
      ELSE Outcome(StepNext, q.stack, vm.locals, vm.heap)

\* a LdStr that pushes a handle of an existing buffer that starts with the
\* literal's text, when there is one
RunLdStrInterned(vm, str) ==
  LET same == {r \in 1 .. Len(vm.heap) :
                 Len(vm.heap[r]) >= Len(str) /\ SubSeq(vm.heap[r], 1, Len(str)) = str}
      a == IF same = {} THEN HeapAlloc(vm.heap, str)
           ELSE [heap |-> vm.heap, ref |-> CHOOSE r \in same : \A q \in same : r <= q]
      q == StackPush(vm.stack, String(a.ref), vm.profile)
  IN  IF q.fault # "none" THEN Panic(q.fault, q.stack, vm.locals, vm.heap)
      ELSE Outcome(StepNext, q.stack, vm.locals, a.heap)

\* run_ld(value.clone()) of a LdStr: From<Cow<str>> for Value copies the text
\* into a new buffer
RunLdStr(vm, str) ==
  LET a == HeapAlloc(vm.heap, str)
      q == StackPush(vm.stack, String(a.ref), vm.profile)
  IN  IF q.fault # "none" THEN Panic(q.fault, q.stack, vm.locals, vm.heap)
      ELSE Outcome(StepNext, q.stack, vm.locals, a.heap)

\* VirtualMachine::run_ldimport
RunLdImport(vm, value) ==
  IF value \in vm.builtins
  THEN RunLd(vm, BuiltIn(value))
  ELSE Panic("not yet implemented", vm.stack, vm.locals, vm.heap)

\* a load of a local that pushes Null for a local nothing was stored into
RunLdLocDefault(vm, local) ==
  IF local \in DOMAIN vm.locals
  THEN RunLd(vm, vm.locals[local])
  ELSE RunLd(vm, Null)

\* a load of a local that copies the text of a String into a new buffer
RunLdLocCopy(vm, local) ==
  IF local \in DOMAIN vm.locals
  THEN (IF vm.locals[local].tag = "String"
        THEN RunLdStr(vm, vm.heap[vm.locals[local].ref])
        ELSE RunLd(vm, vm.locals[local]))
  ELSE Panic("key not found", vm.stack, vm.locals, vm.heap)

\* a load of a local that moves the value out of the map
RunLdLocTake(vm, local) ==
  IF local \in DOMAIN vm.locals
  THEN LET o == RunLd(vm, vm.locals[local])
       IN  [o EXCEPT !.locals = [x \in DOMAIN vm.locals \ {local} |-> vm.locals[x]]]
  ELSE Panic("key not found", vm.stack, vm.locals, vm.heap)

\* VirtualMachine::run_ldloc: indexing the HashMap panics on a missing key
RunLdLoc(vm, local) ==
  IF local \in DOMAIN vm.locals
  THEN RunLd(vm, vm.locals[local])
  ELSE Panic("key not found", vm.stack, vm.locals, vm.heap)

\* HashMap::insert
MapInsert(m, k, v) == [x \in DOMAIN m \cup {k} |-> IF x = k THEN v ELSE m[x]]

\* VirtualMachine::run_stloc
RunStLoc(vm, local) ==
  LET p == StackPop(vm.stack)
  IN  IF p.fault # "none" THEN Panic(p.fault, p.stack, vm.locals, vm.heap)
      ELSE Outcome(StepNext, p.stack, MapInsert(vm.locals, local, p.item), vm.heap)

RunCallSelf(vm, label) ==
  LET q == StackPushTop(vm.stack, Addr(vm.pc), vm.profile)
  IN  IF q.fault # "none" THEN Panic(q.fault, q.stack, vm.locals, vm.heap)
      ELSE Outcome(StepJmp(label), q.stack, vm.locals, vm.heap)

\* a call whose return address is offset by the number of calls made so
\* far, a count that is not a field of the VirtualMachine
RunCallCounting(vm, label) ==
  LET q == StackPushTop(vm.stack, Addr(vm.pc + 1 + Len(calls)), vm.profile)
  IN  IF q.fault # "none" THEN Panic(q.fault, q.stack, vm.locals, vm.heap)
      ELSE Outcome(StepJmp(label), q.stack, vm.locals, vm.heap)

\* a call that also pushes the return address on the operand stack
RunCallPush(vm, label) ==
  LET q == StackPushTop(vm.stack, Addr(vm.pc + 1), vm.profile)
      r == StackPush(q.stack, Addr(vm.pc + 1), vm.profile)
  IN  IF q.fault # "none" THEN Panic(q.fault, q.stack, vm.locals, vm.heap)
      ELSE IF r.fault # "none" THEN Panic(r.fault, r.stack, vm.locals, vm.heap)
      ELSE Outcome(StepJmp(label), r.stack, vm.locals, vm.heap)

\* VirtualMachine::run_call
RunCall(vm, label) ==
  LET q == StackPushTop(vm.stack, Addr(vm.pc + 1), vm.profile)
  IN  IF q.fault # "none" THEN Panic(q.fault, q.stack, vm.locals, vm.heap)
      ELSE Outcome(StepJmp(label), q.stack, vm.locals, vm.heap)

\* a Ret that takes a reserved slot holding no address for a return to the
\* start of the script
RunRetToStart(vm) ==
  LET p == StackPopTop(vm.stack, vm.profile)
  IN  IF p.fault # "none" THEN Panic(p.fault, p.stack, vm.locals, vm.heap)
      ELSE IF p.item.tag = "Addr"
      THEN Outcome(StepJmpAddr(p.item.addr), p.stack, vm.locals, vm.heap)
      ELSE Outcome(StepJmpAddr(0), p.stack, vm.locals, vm.heap)

\* VirtualMachine::run_ret
RunRet(vm) ==
  LET p == StackPopTop(vm.stack, vm.profile)
  IN  IF p.fault # "none" THEN Panic(p.fault, p.stack, vm.locals, vm.heap)
      ELSE IF p.item.tag = "Addr"
      THEN Outcome(StepJmpAddr(p.item.addr), p.stack, vm.locals, vm.heap)
      ELSE Panic("not yet implemented", p.stack, vm.locals, vm.heap)

\* the host function registered as "print" (println!("PRINT: {}", pop()?)):
\* Display for Value is todo!() for an Addr and a BuiltIn
BuiltInPrint(vm) ==
  LET p == StackPop(vm.stack)
  IN  IF p.fault # "none" THEN Panic(p.fault, p.stack, vm.locals, vm.heap)
      ELSE IF p.item.tag \in {"Addr", "BuiltIn"}
      THEN Panic("not yet implemented", p.stack, vm.locals, vm.heap)
      ELSE Outcome(StepNext, p.stack, vm.locals, vm.heap)

\* the append builtin of the tests: pop rhs and borrow its buffer, pop lhs,
\* push_str the text of rhs onto the buffer of lhs, push lhs.  as_string
\* hands out the buffer of a String and a new buffer with the formatted text
\* of a Number; a builtin that fails leaves the stack as far as it got
BuiltInAppend(vm) ==
  LET digit == <<"0", "1", "2", "3", "4", "5", "6", "7", "8", "9">>
      RECURSIVE digits(_), fraction(_, _, _)
      digits(n) == IF n < 10 THEN <<digit[n + 1]>>
                   ELSE digits(n \div 10) \o <<digit[(n % 10) + 1]>>
      fraction(n, d, k) ==
        IF n = 0 \/ k = 0 THEN <<>>
        ELSE <<digit[((n * 10) \div d) + 1]>> \o fraction((n * 10) % d, d, k - 1)
      to_string(f) ==
        IF IsNaN(f) THEN <<"N", "a", "N">>
        ELSE IF IsInf(f)
        THEN (IF f.num < 0 THEN <<"-">> ELSE <<>>) \o <<"i", "n", "f">>
        ELSE (IF f.num < 0 THEN <<"-">> ELSE <<>>)
               \o digits(Abs(f.num) \div f.den)
               \o (IF Abs(f.num) % f.den = 0 THEN <<>>
                   ELSE <<".">> \o fraction(Abs(f.num) % f.den, f.den, 17))
      as_string(h, v) ==
        CASE v.tag = "String" -> [heap |-> h, ref |-> v.ref, fault |-> "none"]
          [] v.tag = "Number" ->
               [heap |-> Append(h, to_string(v.f)), ref |-> Len(h) + 1, fault |-> "none"]
          [] OTHER -> [heap |-> h, ref |-> 0, fault |-> "Bad type"]
      p == StackPop(vm.stack)
      rhs == as_string(vm.heap, p.item)
      q == StackPop(p.stack)
      lhs == as_string(rhs.heap, q.item)
      r == StackPush(q.stack, String(lhs.ref), vm.profile)
  IN  IF p.fault # "none" THEN Panic(p.fault, p.stack, vm.locals, vm.heap)
      ELSE IF rhs.fault # "none" THEN Panic(rhs.fault, p.stack, vm.locals, vm.heap)
      ELSE IF q.fault # "none" THEN Panic(q.fault, q.stack, vm.locals, rhs.heap)
      ELSE IF lhs.fault # "none" THEN Panic(lhs.fault, q.stack, vm.locals, rhs.heap)
      ELSE IF lhs.ref = rhs.ref
      THEN Panic("already borrowed: BorrowMutError", q.stack, vm.locals, lhs.heap)
      ELSE IF r.fault # "none" THEN Panic(r.fault, r.stack, vm.locals, lhs.heap)
      ELSE Outcome(StepNext, r.stack, vm.locals,
                   [lhs.heap EXCEPT ![lhs.ref] = @ \o lhs.heap[rhs.ref]])

\* the CallF arm passing over a name the registry does not hold
RunCallFSkipUnknown(vm, name) ==
  IF name \notin vm.builtins
  THEN Outcome(StepNext, vm.stack, vm.locals, vm.heap)
  ELSE CASE name = "print" -> BuiltInPrint(vm)
         [] name = "append" -> BuiltInAppend(vm)

\* the arm for CallF in run_next; the host's closures are those of the tests
RunCallF(vm, name) ==
  IF name \notin vm.builtins
  THEN Panic("Unexpected built-in", vm.stack, vm.locals, vm.heap)
  ELSE CASE name = "print" -> BuiltInPrint(vm)
         [] name = "append" -> BuiltInAppend(vm)

\* the arm for BNot in run_next
RunBNot(vm) ==
  LET p == StackPop(vm.stack)
      value == IF p.item.tag = "Bool" THEN Bool(~p.item.b)
               ELSE Number(FInt(IPow(2, 32) - 1 - AsU32(p.item.f)))
      q == StackPush(p.stack, value, vm.profile)
  IN  IF p.fault # "none" THEN Panic(p.fault, p.stack, vm.locals, vm.heap)
      ELSE IF p.item.tag \notin {"Bool", "Number"}
      THEN Panic("not yet implemented", p.stack, vm.locals, vm.heap)
      ELSE IF q.fault # "none" THEN Panic(q.fault, q.stack, vm.locals, vm.heap)
      ELSE Outcome(StepNext, q.stack, vm.locals, vm.heap)

\* the arm for Label in run_next
RunLabel(vm) == Panic("Encountered label", vm.stack, vm.locals, vm.heap)

\* VirtualMachine::run_next
RunNext(vm) ==
  LET ins == vm.script[vm.pc + 1]
      op == ins.op
  IN  CASE op = "Nop" -> Outcome(StepNext, vm.stack, vm.locals, vm.heap)
        [] op = "LdNull" -> RunLd(vm, Null)
        [] op = "LdTrue" -> RunLd(vm, Bool(TRUE))
        [] op = "LdFalse" -> RunLd(vm, Bool(FALSE))
        [] op = "LdF64" -> RunLd(vm, Number(ins.f))
        [] op = "LdStr" -> RunLdStr(vm, ins.str)
        [] op = "LdAddr" -> RunLd(vm, Addr(ins.addr))
        [] op = "LdImport" -> RunLdImport(vm, ins.name)
        [] op = "StLoc" -> RunStLoc(vm, ins.local)
        [] op = "LdLoc" -> RunLdLoc(vm, ins.local)
        [] op = "Jmp" -> Outcome(StepJmp(ins.label), vm.stack, vm.locals, vm.heap)
        [] op = "JmpEq" -> JmpIf(ins.label, vm, "==")
        [] op = "JmpNEq" -> JmpIf(ins.label, vm, "!=")
        [] op = "JmpLt" -> JmpIf(ins.label, vm, "<")
        [] op = "JmpLtEq" -> JmpIf(ins.label, vm, "<=")
        [] op = "JmpGt" -> JmpIf(ins.label, vm, ">")
        [] op = "JmpGtEq" -> JmpIf(ins.label, vm, ">=")
        [] op = "Call" -> RunCall(vm, ins.label)
        [] op = "CallF" -> RunCallF(vm, ins.name)
        [] op = "Ret" -> RunRet(vm)
        [] op = "Add" -> RunArithOp(vm, "+")
        [] op = "Sub" -> RunArithOp(vm, "-")
        [] op = "Mul" -> RunArithOp(vm, "*")
        [] op = "Div" -> RunArithOp(vm, "/")
        [] op = "Mod" -> RunArithOp(vm, "%")
        [] op = "Pow" -> RunArithOp(vm, "powf")
        [] op = "Eq" -> RunLogOp(vm, "==")
        [] op = "NEq" -> RunLogOp(vm, "!=")
        [] op = "Lt" -> RunLogOp(vm, "<")
        [] op = "Gt" -> RunLogOp(vm, ">")
        [] op = "LtEq" -> RunLogOp(vm, "<=")
        [] op = "GtEq" -> RunLogOp(vm, ">=")
        [] op = "BNot" -> RunBNot(vm)
        [] op = "BOr" -> RunArithOpFn(vm, "|")
        [] op = "BAnd" -> RunArithOpFn(vm, "&")
        [] op = "LShift" -> RunArithOpFn(vm, "<<")
        [] op = "RShift" -> RunArithOpFn(vm, ">>")
        [] op = "Label" -> RunLabel(vm)

\* a label index in which the first marker of a label wins
LabelIndexFirst(scr) ==
  LET marked == {scr[i].label : i \in {j \in DOMAIN scr : scr[j].op = "Label"}}
  IN  [l \in marked |->
         CHOOSE i \in DOMAIN scr :
           /\ scr[i].op = "Label" /\ scr[i].label = l
           /\ \A j \in DOMAIN scr :
                (scr[j].op = "Label" /\ scr[j].label = l) => j >= i]

\* the label index VirtualMachine::new collects: each marker's offset + 1,
\* the last marker of a label winning (script is indexed from 1 here, so the
\* marker at offset i - 1 is script[i])
LabelIndex(scr) ==
  LET marked == {scr[i].label : i \in {j \in DOMAIN scr : scr[j].op = "Label"}}
  IN  [l \in marked |->
         CHOOSE i \in DOMAIN scr :
           /\ scr[i].op = "Label" /\ scr[i].label = l
           /\ \A j \in DOMAIN scr :
                (scr[j].op = "Label" /\ scr[j].label = l) => j <= i]

\* the size VirtualMachine::new gives its stack
StackSize == 255

(***************************************************************************)
(* The syntax tree (src/ast/expr.rs).  An Option is None or Some(x).       *)
(***************************************************************************)
None == [some |-> FALSE]
Some(x) == [some |-> TRUE, value |-> x]

ExprNoop == [kind |-> "Noop"]
ExprString(v) == [kind |-> "String", str |-> v]
ExprNumber(v) == [kind |-> "Number", f |-> v]
ExprIf(c, b, ft) == [kind |-> "If", condition |-> c, body |-> b, fallthrough |-> ft]
ExprCall(n, a) == [kind |-> "Call", name |-> n, args |-> a]
ExprAssign(i, e) == [kind |-> "Assign", ident |-> i, expr |-> e]
ExprDefine(i, e) == [kind |-> "Define", ident |-> i, expr |-> e]
ExprFunction(n, ps, b) == [kind |-> "Function", name |-> n, params |-> ps, body |-> b]
ExprUnaryOp(o, e) == [kind |-> "UnaryOp", op |-> o, expr |-> e]
ExprBinaryOp(l, o, r) == [kind |-> "BinaryOp", lhs |-> l, op |-> o, rhs |-> r]
ExprRefVar(n) == [kind |-> "RefVar", name |-> n]
ExprRefParam(n) == [kind |-> "RefParam", name |-> n]
ExprCompound(es) == [kind |-> "Compound", exprs |-> es]

(***************************************************************************)
(* Uuid::new (src/util/uuid.rs) adds the 16-bit counter to the nanoseconds *)
(* since the thread started.  Within one compilation, on one thread and    *)
(* before the counter wraps, successive identifiers strictly increase; an  *)
(* identifier is modelled by its rank in the order of minting, kept in the *)
(* field uuid of the visitor that mints it.                                *)
(***************************************************************************)
UuidNew(h) == h.uuid + 1

(***************************************************************************)
(* The pre-scan (src/ir/functions.rs).  The visitor's state is             *)
(* [functions, uuid].                                                      *)
(***************************************************************************)
RECURSIVE FnsVisit(_, _)
RECURSIVE FnsVisitSeq(_, _, _)

\* visit_function recording the function without visiting its body
FnsVisitFunctionShallow(st, e) ==
  LET label == UuidNew(st)
  IN  [functions |-> MapInsert(st.functions, e.name, label), uuid |-> label]

\* Functions::visit_function
FnsVisitFunction(st, e) ==
  LET label == UuidNew(st)
  IN  FnsVisit([functions |-> MapInsert(st.functions, e.name, label),
                uuid |-> label], e.body)

\* the loop of the Compound arm of Visitor::visit
FnsVisitSeq(st, es, i) ==
  IF i > Len(es) THEN st ELSE FnsVisitSeq(FnsVisit(st, es[i]), es, i + 1)

\* Visitor::visit with the default methods of the trait, as Functions
\* inherits them (a Define is traversed as an Assign is)
FnsVisit(st, e) ==
  CASE e.kind \in {"Noop", "String", "Number", "RefVar", "RefParam"} -> st
    [] e.kind = "If" ->
         LET a == FnsVisit(FnsVisit(st, e.condition), e.body)
         IN  IF e.fallthrough.some THEN FnsVisit(a, e.fallthrough.value) ELSE a
    [] e.kind = "Call" -> IF e.args.some THEN FnsVisit(st, e.args.value) ELSE st
    [] e.kind \in {"Assign", "Define", "UnaryOp"} -> FnsVisit(st, e.expr)
    [] e.kind = "Function" -> FnsVisitFunction(st, e)
    [] e.kind = "BinaryOp" -> FnsVisit(FnsVisit(st, e.lhs), e.rhs)
    [] e.kind = "Compound" -> FnsVisitSeq(st, e.exprs, 1)

\* get_fns
GetFns(e, uuid0) == FnsVisit([functions |-> <<>>, uuid |-> uuid0], e)

(***************************************************************************)
(* Hir (src/hir/mod.rs): [scope, scopes, functions, instructions] and, for *)
(* the model, uuid (the identifiers minted so far) and fault (the message  *)
(* of the panic that aborted the lowering, or "none").  ScopeId i is       *)
(* scopes[i + 1].                                                          *)
(***************************************************************************)
\* Scope::new
ScopeNew == [vars |-> <<>>, params |-> <<>>, parent |-> None, children |-> <<>>]

\* Hir::scope_by
ScopeBy(h, id) == h.scopes[id + 1]

\* Hir::scope
HirScope(h) == ScopeBy(h, h.scope)

HirPanic(h, msg) == IF h.fault # "none" THEN h ELSE [h EXCEPT !.fault = msg]

\* Hir::pop_scope
PopScope(h) ==
  IF h.fault # "none" THEN h
  ELSE LET scope == h.scopes[h.scope + 1]
           parent == IF scope.parent.some THEN scope.parent.value ELSE h.scope
       IN  [h EXCEPT !.scope = parent]

\* Hir::push_scope
PushScope(h) ==
  IF h.fault # "none" THEN h
  ELSE [h EXCEPT !.scopes = Append(@, ScopeNew)]

PushVarNoCheck(h, name) ==
  IF h.fault # "none" THEN h
  ELSE [h EXCEPT !.uuid = UuidNew(h),
                 !.scopes[h.scope + 1].vars = MapInsert(@, name, UuidNew(h))]

\* Hir::push_var; the local it returns is the uuid of the resulting state
PushVar(h, name) ==
  IF h.fault # "none" THEN h
  ELSE LET local_id == UuidNew(h)
           dup == name \in DOMAIN HirScope(h).vars
           g == [h EXCEPT !.uuid = local_id,
                          !.scopes[h.scope + 1].vars = MapInsert(@, name, local_id)]
       IN  IF dup THEN HirPanic(g, "Duplicate variable") ELSE g

\* Hir::push_param; the local it returns is the uuid of the resulting state
PushParam(h, name) ==
  IF h.fault # "none" THEN h
  ELSE LET local_id == UuidNew(h)
           dup == name \in DOMAIN HirScope(h).params
           g == [h EXCEPT !.uuid = local_id,
                          !.scopes[h.scope + 1].params = MapInsert(@, name, local_id)]
       IN  IF dup THEN HirPanic(g, "Duplicate variable") ELSE g

RECURSIVE LookupVar(_, _, _)
\* the loop of Hir::get_var_id, from the scope id
LookupVar(h, id, name) ==
  LET scope == ScopeBy(h, id)
  IN  IF name \in DOMAIN scope.vars THEN Some(scope.vars[name])
      ELSE IF scope.parent.some THEN LookupVar(h, scope.parent.value, name)
      ELSE None

\* Hir::get_var_id
GetVarId(h, name) == LookupVar(h, h.scope, name)

RECURSIVE LookupParam(_, _, _)
\* the loop of Hir::get_param_id, from the scope id
LookupParam(h, id, name) ==
  LET scope == ScopeBy(h, id)
  IN  IF name \in DOMAIN scope.params THEN Some(scope.params[name])
      ELSE IF scope.parent.some THEN LookupParam(h, scope.parent.value, name)
      ELSE None

\* get_param_id falling back to the variables of the scope chain
GetParamIdOrVar(h, name) ==
  LET id == LookupParam(h, h.scope, name)
  IN  IF id.some THEN id ELSE LookupVar(h, h.scope, name)

\* Hir::get_param_id
GetParamId(h, name) == LookupParam(h, h.scope, name)

\* Hir::push
Push(h, instruction) ==
  IF h.fault # "none" THEN h
  ELSE [h EXCEPT !.instructions = Append(@, instruction)]

RECURSIVE Visit(_, _)
RECURSIVE VisitSeq(_, _, _)
RECURSIVE VisitIf(_, _)
RECURSIVE VisitFunction(_, _)
RECURSIVE VisitBinary(_, _)
RECURSIVE VisitUnary(_, _)
RECURSIVE VisitAssign(_, _)
RECURSIVE VisitDefine(_, _)

\* Hir::visit_var
VisitVar(h, var) ==
  LET id == GetVarId(h, var.name)
  IN  IF id.some THEN Push(h, InsLocal("LdLoc", id.value))
      ELSE HirPanic(h, "Undefined variable")

\* Hir::visit_param
VisitParam(h, param) ==
  LET id == GetParamId(h, param.name)
  IN  IF id.some THEN Push(h, InsLocal("LdLoc", id.value))
      ELSE HirPanic(h, "Undefined parameter")

\* Hir::visit_assign
VisitAssign(h, e) ==
  LET local == GetVarId(h, e.ident)
  IN  IF ~local.some THEN HirPanic(h, "Undefined parameter")
      ELSE Push(Visit(h, e.expr), InsLocal("StLoc", local.value))

\* Hir::visit_define
VisitDefine(h, e) ==
  LET g == PushVar(h, e.ident)
      local == g.uuid
  IN  Push(Visit(g, e.expr), InsLocal("StLoc", local))

\* Hir::visit_number
VisitNumber(h, lit) == Push(h, LdF64(lit.f))

\* Hir::visit_string
VisitString(h, lit) == Push(h, LdStr(lit.str))

\* Hir::visit_unary
VisitUnary(h, e) ==
  CASE e.op = "Neg" -> Push(Push(Visit(h, e.expr), LdF64(FInt(-1))), Ins("Mul"))
    [] e.op = "BNot" -> Push(Visit(h, e.expr), Ins("BNot"))
    [] OTHER -> HirPanic(h, "AddInc/SubInc unary expressions were a mistake.")

\* the match on expr.op in Hir::visit_binary
BinaryInstruction(op) ==
  CASE op = "Add" -> Ins("Add")
    [] op = "Sub" -> Ins("Sub")
    [] op = "Mul" -> Ins("Mul")
    [] op = "Div" -> Ins("Div")
    [] op = "Mod" -> Ins("Mod")
    [] op = "Pow" -> Ins("Pow")
    [] op = "BOr" -> Ins("BOr")
    [] op = "BAnd" -> Ins("BAnd")
    [] op = "LShift" -> Ins("LShift")
    [] op = "RShift" -> Ins("RShift")
    [] op = "Eq" -> Ins("Eq")
    [] op = "NEq" -> Ins("NEq")
    [] op = "Lt" -> Ins("Lt")
    [] op = "LtEq" -> Ins("LtEq")
    [] op = "Gt" -> Ins("Gt")
    [] op = "GtEq" -> Ins("GtEq")

VisitBinaryLhsFirst(h, e) ==
  Push(Visit(Visit(h, e.lhs), e.rhs), BinaryInstruction(e.op))

\* Hir::visit_binary
VisitBinary(h, e) ==
  Push(Visit(Visit(h, e.rhs), e.lhs), BinaryInstruction(e.op))

\* Hir::visit_call
VisitCall(h, e) ==
  IF e.name \in DOMAIN h.functions
  THEN Push(h, InsLabel("Call", h.functions[e.name]))
  ELSE Push(h, InsName("CallF", e.name))

\* a lowering of the condition without the comparison-jump arms
VisitConditionNoShortcut(h, condition, body_label) ==
  Push(Push(Visit(h, condition), Ins("LdTrue")), InsLabel("JmpEq", body_label))

\* the condition of Hir::visit_if
VisitCondition(h, condition, body_label) ==
  IF condition.kind = "BinaryOp" /\ condition.op = "Eq"
  THEN Push(Visit(Visit(h, condition.rhs), condition.lhs), InsLabel("JmpEq", body_label))
  ELSE IF condition.kind = "BinaryOp" /\ condition.op = "Lt"
  THEN Push(Visit(Visit(h, condition.rhs), condition.lhs), InsLabel("JmpLt", body_label))
  ELSE Push(Push(Visit(h, condition), Ins("LdTrue")), InsLabel("JmpEq", body_label))

\* Hir::visit_if
VisitIf(h, e) ==
  LET end_label == UuidNew(h)
      body_label == end_label + 1
      h1 == VisitCondition([h EXCEPT !.uuid = body_label], e.condition, body_label)
      h2 == IF e.fallthrough.some
            THEN Push(PopScope(Visit(PushScope(h1), e.fallthrough.value)),
                      InsLabel("Jmp", end_label))
            ELSE h1
      h3 == Push(h2, InsLabel("Label", body_label))
      h4 == PopScope(Visit(PushScope(h3), e.body))
  IN  Push(h4, InsLabel("Label", end_label))

RECURSIVE BindParams(_, _, _)
\* the loop over expr.params in Hir::visit_function
BindParams(h, params, i) ==
  IF i > Len(params) THEN h
  ELSE LET g == PushParam(h, params[i])
       IN  BindParams(Push(g, InsLocal("LdLoc", g.uuid)), params, i + 1)

\* visit_function with the leading jump aimed at the function's own label
VisitFunctionJmpToBody(h, e) ==
  LET h0 == PushScope(h)
      end_label == UuidNew(h0)
      h1 == [h0 EXCEPT !.uuid = end_label]
  IN  IF e.name \notin DOMAIN h.functions
      THEN HirPanic(h1, "Function defined after HIR initial scan")
      ELSE LET fn_label == h.functions[e.name]
               h2 == Push(Push(h1, InsLabel("Jmp", fn_label)), InsLabel("Label", fn_label))
               h3 == Visit(BindParams(h2, e.params, 1), e.body)
               h4 == Push(Push(h3, Ins("Ret")), InsLabel("Label", end_label))
           IN  PopScope(h4)

\* a lowering of a function that marks its end with the function's label
VisitFunctionOneLabel(h, e) ==
  LET h0 == PushScope(h)
      end_label == UuidNew(h0)
      h1 == [h0 EXCEPT !.uuid = end_label]
  IN  IF e.name \notin DOMAIN h.functions
      THEN HirPanic(h1, "Function defined after HIR initial scan")
      ELSE LET fn_label == h.functions[e.name]
               h2 == Push(Push(h1, InsLabel("Jmp", end_label)), InsLabel("Label", fn_label))
               h3 == Visit(BindParams(h2, e.params, 1), e.body)
               h4 == Push(Push(h3, Ins("Ret")), InsLabel("Label", fn_label))
           IN  PopScope(h4)

\* Hir::visit_function
VisitFunction(h, e) ==
  LET h0 == PushScope(h)
      end_label == UuidNew(h0)
      h1 == [h0 EXCEPT !.uuid = end_label]
  IN  IF e.name \notin DOMAIN h.functions
      THEN HirPanic(h1, "Function defined after HIR initial scan")
      ELSE LET fn_label == h.functions[e.name]
               h2 == Push(Push(h1, InsLabel("Jmp", end_label)), InsLabel("Label", fn_label))
               h3 == Visit(BindParams(h2, e.params, 1), e.body)
               h4 == Push(Push(h3, Ins("Ret")), InsLabel("Label", end_label))
           IN  PopScope(h4)

\* the loop of the Compound arm of Visitor::visit
VisitSeq(h, es, i) ==
  IF i > Len(es) THEN h ELSE VisitSeq(Visit(h, es[i]), es, i + 1)

\* Visitor::visit (src/gen/visit.rs) as Hir implements the trait; a Define
\* goes to Hir::visit_define.  A panic aborts the lowering, so nothing is
\* visited after one.
Visit(h, e) ==
  IF h.fault # "none" THEN h
  ELSE CASE e.kind = "Noop" -> h
         [] e.kind = "String" -> VisitString(h, e)
         [] e.kind = "Number" -> VisitNumber(h, e)
         [] e.kind = "If" -> VisitIf(h, e)
         [] e.kind = "Call" -> VisitCall(h, e)
         [] e.kind = "Assign" -> VisitAssign(h, e)
         [] e.kind = "Define" -> VisitDefine(h, e)
         [] e.kind = "Function" -> VisitFunction(h, e)
         [] e.kind = "UnaryOp" -> VisitUnary(h, e)
         [] e.kind = "BinaryOp" -> VisitBinary(h, e)
         [] e.kind = "RefVar" -> VisitVar(h, e)
         [] e.kind = "RefParam" -> VisitParam(h, e)
         [] e.kind = "Compound" -> VisitSeq(h, e.exprs, 1)

\* compile (src/hir/mod.rs): the Hir after the pre-scan and the lowering;
\* its instructions are the program when fault is "none"
Compile(e) ==
  LET fns == GetFns(e, 0)
  IN  Visit([scope |-> 0, scopes |-> <<ScopeNew>>, functions |-> fns.functions,
             instructions |-> <<>>, uuid |-> fns.uuid, fault |-> "none"], e)

(***************************************************************************)
(* The programs explored.                                                  *)
(***************************************************************************)
BinaryOperators ==
  {"Add", "Sub", "Mul", "Div", "Mod", "Pow", "BOr", "BAnd", "LShift", "RShift",
   "Eq", "NEq", "Lt", "LtEq", "Gt", "GtEq"}

IntLits == {FInt(-2), FInt(0), FInt(3)}
NumLits == IntLits \cup {F(5, 2)}

\* (op a b) on two number literals; a power is taken to an integer exponent;
\* (| 5.7 2.3) and (+ 2 3)
BinaryPrograms ==
  {ExprBinaryOp(ExprNumber(a), op, ExprNumber(b)) :
     <<op, a, b>> \in {t \in BinaryOperators \X NumLits \X NumLits :
                         t[1] = "Pow" => t[3] \in IntLits}}
    \cup {ExprBinaryOp(ExprNumber(F(57, 10)), "BOr", ExprNumber(F(23, 10))),
          ExprBinaryOp(ExprNumber(FInt(2)), "Add", ExprNumber(FInt(3)))}

\* the conditions of the conditionals explored: direct comparisons of two
\* number literals (Eq and Lt take the comparison-jump shortcut)
CondLits == {FInt(0), FInt(3)}
Conditions ==
  {ExprBinaryOp(ExprNumber(a), op, ExprNumber(b)) :
     <<op, a, b>> \in {"Eq", "Lt", "Gt", "NEq"} \X CondLits \X CondLits}

StrOne == <<"o", "n", "e">>
StrOther == <<"o", "t", "h", "e", "r">>

\* (if condition "one") and (if condition "one" "other")
IfExprs ==
  {ExprIf(c, ExprString(StrOne), ft) :
     <<c, ft>> \in Conditions \X {None, Some(ExprString(StrOther))}}

\* a conditional alone, and a conditional followed by a number
IfPrograms ==
  IfExprs \cup {ExprCompound(<<i, ExprNumber(FInt(9))>>) : i \in IfExprs}

\* (fun f () 1) (f), the call before the definition, f calling g, and f
\* calling itself
FunctionPrograms ==
  LET f(body) == ExprFunction("f", <<>>, body)
      g(body) == ExprFunction("g", <<>>, body)
      call(n) == ExprCall(n, None)
      one == ExprNumber(FInt(1))
      two == ExprNumber(FInt(2))
  IN  { ExprCompound(<<f(one), call("f")>>),
        ExprCompound(<<call("f"), f(one), two>>),
        ExprCompound(<<f(ExprCompound(<<call("g"), one>>)), g(two), call("f")>>),
        ExprCompound(<<f(call("f")), call("f")>>) }

\* (var x e)
VarX(f) == ExprDefine("x", ExprNumber(FInt(f)))

\* a condition that holds and one that does not
CondTrue == ExprBinaryOp(ExprNumber(FInt(0)), "Eq", ExprNumber(FInt(0)))
CondFalse == ExprBinaryOp(ExprNumber(FInt(0)), "Eq", ExprNumber(FInt(3)))

\* x is defined in one branch of an if and referenced in the surrounding
\* scope after the if, or in the other branch
LeakPrograms ==
  UNION {{ ExprCompound(<<ExprIf(c, VarX(1), None), ExprRefVar("x")>>),
           ExprCompound(<<ExprIf(c, ExprNumber(FInt(1)), Some(VarX(2))),
                          ExprRefVar("x")>>),
           ExprIf(c, ExprRefVar("x"), Some(VarX(2))) } :
         c \in {CondTrue, CondFalse}}

\* x is defined, defined again inside an if body, and referenced after
ShadowPrograms ==
  {ExprCompound(<<VarX(1), ExprIf(c, VarX(2), None), ExprRefVar("x")>>) :
     c \in {CondTrue, CondFalse}}

\* x is defined twice in the same scope
DuplicatePrograms ==
  { ExprCompound(<<VarX(1), VarX(2)>>),
    ExprCompound(<<VarX(1), ExprDefine("y", ExprNumber(FInt(2))), VarX(1)>>),
    ExprCompound(<<VarX(1), ExprRefVar("x"), VarX(2)>>) }

\* definitions, references and assignments that name each variable once;
\* x defined in an if body and assigned after the if
VarPrograms ==
  { ExprCompound(<<VarX(1), ExprRefVar("x")>>),
    ExprCompound(<<VarX(5), ExprRefVar("x")>>),
    ExprCompound(<<VarX(1), ExprDefine("y", ExprNumber(FInt(2))), ExprRefVar("x")>>),
    ExprCompound(<<VarX(1), ExprAssign("x", ExprNumber(FInt(2))), ExprRefVar("x")>>),
    ExprCompound(<<VarX(1),
                   ExprAssign("x", ExprBinaryOp(ExprNumber(FInt(2)), "Add",
                                                ExprNumber(FInt(3)))),
                   ExprRefVar("x")>>),
    ExprCompound(<<VarX(1), ExprIf(CondTrue, ExprAssign("x", ExprNumber(FInt(2))), None)>>),
    ExprCompound(<<ExprIf(CondTrue, VarX(1), None), ExprAssign("x", ExprNumber(FInt(2)))>>),
    ExprCompound(<<ExprIf(CondFalse, VarX(1), None), ExprAssign("x", ExprNumber(FInt(2)))>>),
    ExprRefVar("x"),
    ExprAssign("x", ExprNumber(FInt(2))) }

ScopePrograms ==
  LeakPrograms \cup ShadowPrograms \cup DuplicatePrograms \cup VarPrograms

\* functions with a parameter x: x also defined as a variable in the body
\* and referenced both ways; x referenced only as a variable; a variable x
\* referenced as a parameter; two functions that each declare x; x assigned
\* in the body, without and with a variable x defined there; a function of
\* one parameter and one of two, each followed by a call of it
ParamProgram ==
  [ both |-> ExprFunction("f", <<"x">>,
               ExprCompound(<<VarX(1), ExprRefVar("x"), ExprRefParam("x")>>)),
    param_as_var |-> ExprFunction("f", <<"x">>, ExprRefVar("x")),
    var_as_param |-> ExprCompound(<<VarX(1), ExprRefParam("x")>>),
    same_name |-> ExprCompound(<<ExprFunction("f", <<"x">>, ExprRefParam("x")),
                                 ExprFunction("g", <<"x">>, ExprRefParam("x"))>>),
    other_name |-> ExprCompound(<<ExprFunction("f", <<"x">>, ExprRefParam("x")),
                                  ExprFunction("g", <<"y">>, ExprRefParam("y"))>>),
    assign_param |-> ExprFunction("f", <<"x">>, ExprAssign("x", ExprNumber(FInt(2)))),
    assign_both |-> ExprFunction("f", <<"x">>,
                      ExprCompound(<<VarX(1), ExprAssign("x", ExprNumber(FInt(2)))>>)),
    call_one |-> ExprCompound(<<ExprFunction("f", <<"x">>, ExprRefParam("x")),
                                ExprCall("f", None)>>),
    call_two |-> ExprCompound(<<ExprFunction("f", <<"x", "y">>, ExprNumber(FInt(1))),
                                ExprCall("f", Some(ExprNumber(FInt(2))))>>) ]

\* calls of f, of g defined inside f, and of a name h no function has,
\* before, inside and after the definitions; and two definitions of f with
\* the call after them or before them; calls of names no function has
FnProgram ==
  LET f(body) == ExprFunction("f", <<>>, body)
      g(body) == ExprFunction("g", <<>>, body)
      call(n) == ExprCall(n, None)
      one == ExprNumber(FInt(1))
      two == ExprNumber(FInt(2))
  IN  [ nested |-> ExprCompound(<<call("g"),
                                  f(ExprCompound(<<g(two), call("f"), call("g")>>)),
                                  call("f"), call("h")>>),
        twice |-> ExprCompound(<<f(one), f(two), call("f")>>),
        twice_after |-> ExprCompound(<<call("f"), f(one), f(two)>>),
        builtin |-> ExprCompound(<<one, call("print"), two>>),
        unknown |-> ExprCompound(<<one, call("h"), two>>),
        print_arg |-> ExprCall("print", Some(one)),
        print_args |-> ExprCall("print", Some(ExprCompound(<<one, two>>))) ]

Programs ==
  BinaryPrograms \cup IfPrograms \cup FunctionPrograms \cup ScopePrograms
    \cup {ParamProgram[k] : k \in DOMAIN ParamProgram}
    \cup {FnProgram[k] : k \in DOMAIN FnProgram}
    \cup {ExprIf(c, ExprString(StrOne), ft) :
            <<c, ft>> \in {ExprNumber(FInt(0)),
                           ExprCall("print", None),
                           ExprBinaryOp(CondTrue, "NEq", ExprNumber(FInt(3))),
                           ExprBinaryOp(CondTrue, "Eq", CondFalse),
                           ExprBinaryOp(ExprBinaryOp(ExprNumber(FInt(0)), "Add",
                                                     ExprNumber(FInt(3))),
                                        "Lt", ExprNumber(FInt(3)))}
                            \X {None, Some(ExprString(StrOther))}}

\* the instruction sequences handed to VirtualMachine::new directly
ScriptNop == <<Ins("Nop")>>

ScriptLabel == <<Ins("LdNull"), InsLabel("Label", 1), Ins("LdTrue")>>

\* a call of the function at label 1, which returns
ScriptCall ==
  <<InsLabel("Call", 1), Ins("Nop"), InsLabel("Jmp", 2), InsLabel("Label", 1),
    Ins("LdTrue"), Ins("Ret"), InsLabel("Label", 2)>>

\* a call of the function at label 1, which calls the function at label 2
ScriptNested ==
  <<InsLabel("Call", 1), Ins("Nop"), InsLabel("Jmp", 3),
    InsLabel("Label", 1), InsLabel("Call", 2), Ins("LdTrue"), Ins("Ret"),
    InsLabel("Label", 2), Ins("LdFalse"), Ins("Ret"),
    InsLabel("Label", 3)>>

\* two calls in a row of the function at label 1
ScriptTwoCalls ==
  <<InsLabel("Call", 1), InsLabel("Call", 1), InsLabel("Jmp", 2),
    InsLabel("Label", 1), Ins("Ret"), InsLabel("Label", 2)>>

\* a Ret before any Call, and a Call of a label with no marker
ScriptRet == <<Ins("Ret"), Ins("Nop")>>
ScriptNoLabel == <<InsLabel("Call", 1)>>

\* one load instruction for each kind of constant, NaN and an import of a
\* name no registry holds included
LoadInstructions ==
  {Ins("LdNull"), Ins("LdTrue"), Ins("LdFalse"), LdF64(FInt(0)), LdF64(FInt(3)),
   LdF64(NaN), LdStr(StrOne), LdStr(StrOther), LdAddr(1), LdAddr(2),
   InsName("LdImport", "print"), InsName("LdImport", "h")}

\* a load alone; two loads and a comparison for equality or order, or a jump
\* on one; a load stored into a local and loaded back; a string stored in two
\* locals and appended to through one of them; two loads, an arithmetic or
\* bitwise operation and a Nop; shifts of 1 by 64 and by 64.5; a function
\* that loads a string, called twice with an append to its first result in
\* between; an addition without operands; calls of builtins by name
ValueScripts ==
  {<<a>> : a \in LoadInstructions}
    \cup {<<a, b, Ins(op)>> :
            <<a, b, op>> \in LoadInstructions \X LoadInstructions \X {"Eq", "NEq"}}
    \cup {<<a, b, InsLabel("JmpEq", 1), Ins("Nop"), InsLabel("Label", 1)>> :
            <<a, b>> \in LoadInstructions \X LoadInstructions}
    \cup (LET ld == {Ins("LdNull"), Ins("LdTrue"), LdF64(FInt(0)), LdF64(FInt(3)),
                     LdF64(NaN), LdStr(StrOne), LdAddr(1), InsName("LdImport", "print")}
          IN  {<<a, b, Ins(op)>> :
                 <<a, b, op>> \in ld \X ld \X {"Lt", "Gt", "LtEq", "GtEq"}}
                \cup {<<a, b, InsLabel(op, 1), Ins("Nop"), InsLabel("Label", 1)>> :
                        <<a, b, op>> \in ld \X ld \X {"JmpLt", "JmpGt", "JmpLtEq", "JmpGtEq"}})
    \cup {<<a, InsLocal("StLoc", 1), InsLocal("LdLoc", 1)>> : a \in LoadInstructions}
    \cup {<<LdStr(StrOne), InsLocal("StLoc", 1), InsLocal("LdLoc", 1),
             InsLocal("StLoc", 2), InsLocal("LdLoc", l), b,
             InsName("CallF", "append"), InsLocal("StLoc", 3)>> :
            <<l, b>> \in {1, 2} \X {LdStr(StrOther), LdF64(F(5, 2)), LdF64(FInt(-30)),
                                   Ins("LdNull"), InsLocal("LdLoc", 1)}}
    \cup (LET ld == {Ins("LdNull"), Ins("LdTrue"), LdF64(FInt(3)), LdStr(StrOne)}
              ar == {"Add", "Sub", "Mul", "Div", "Mod", "Pow",
                     "BOr", "BAnd", "LShift", "RShift"}
          IN  {<<a, b, Ins(op), Ins("Nop")>> : <<a, b, op>> \in ld \X ld \X ar})
    \cup {<<LdF64(b), LdF64(FInt(1)), Ins(op)>> :
            <<op, b>> \in {"LShift", "RShift"} \X {FInt(64), F(129, 2)}}
    \cup {<<InsLabel("Call", 1), b, InsName("CallF", "append"),
             InsLocal("StLoc", 1), InsLabel("Call", 1), InsLocal("StLoc", 2),
             InsLabel("Jmp", 2), InsLabel("Label", 1), LdStr(StrOne), Ins("Ret"),
             InsLabel("Label", 2)>> : b \in {LdStr(StrOther), LdStr(StrOne)}}
    \cup { <<Ins("LdNull"), Ins("Add")>>,
           <<LdF64(FInt(1)), InsName("CallF", "print"), Ins("Nop")>>,
           <<InsName("CallF", "print")>>,
           <<InsName("CallF", "h"), Ins("Nop")>> }

Scripts ==
  {ScriptNop, ScriptLabel, ScriptCall, ScriptNested, ScriptTwoCalls, ScriptRet,
   ScriptNoLabel} \cup ValueScripts

\* the sets of names a host registers with VirtualMachine::builtin
Registries == {{}, {"print"}, {"print", "append"}}

(***************************************************************************)
(* The state machine: compile, VirtualMachine::new, and the iterations of  *)
(* the loop of VirtualMachine::run.                                        *)
(***************************************************************************)
Vm == [pc |-> pc, stack |-> stack, script |-> script, labels |-> labels,
       locals |-> locals, builtins |-> builtins, heap |-> heap,
       profile |-> profile]

NoVm ==
  /\ pc = 0
  /\ labels = <<>>
  /\ locals = <<>>
  /\ builtins = {}
  /\ heap = <<>>
  /\ fault = "none"
  /\ calls = <<>>
  /\ frames = <<>>
  /\ trace = <<>>
  /\ ops = <<>>
  /\ ret = [arg |-> Null, item |-> Null, fault |-> "none"]
  /\ EPOCH = 0
  /\ clock = 0
  /\ ids = <<>>
  /\ threads = [t \in {1, 2} |->
                  [at |-> "idle", count |-> 0, EPOCH |-> [some |-> FALSE], ids |-> <<>>]]

Init ==
  /\ profile \in {"debug", "release"}
  /\ \/ phase = "source" /\ expr \in Programs /\ script = <<>>
     \/ phase = "compiled" /\ expr = ExprNoop /\ script \in Scripts
  /\ stack = StackNew(0)
  /\ COUNTER = 0
  /\ NoVm

\* compile(&expr)
CompileStep ==
  /\ phase = "source"
  /\ LET h == Compile(expr)
     IN  IF h.fault # "none"
         THEN phase' = "fault" /\ fault' = h.fault /\ script' = <<>>
         ELSE phase' = "compiled" /\ fault' = fault /\ script' = h.instructions
  /\ UNCHANGED <<threads, COUNTER, EPOCH, clock, ids, profile, expr, pc, stack, labels, locals, builtins, heap,
                 calls, frames, trace, ops, ret>>

\* VirtualMachine::new(&script) followed by the calls of builtin that
\* register the names of reg
VmNew ==
  /\ phase = "compiled"
  /\ \E reg \in Registries : builtins' = reg
  /\ phase' = "running"
  /\ pc' = 0
  /\ stack' = StackNew(StackSize)
  /\ labels' = LabelIndex(script)
  /\ locals' = <<>>
  /\ UNCHANGED <<threads, COUNTER, EPOCH, clock, ids, profile, expr, script, heap, fault, calls, frames, trace, ops, ret>>

\* a jump by label landing on the marker itself
NextPcAtMarker(vm, step) ==
  CASE step.kind = "Next" -> vm.pc + 1
    [] step.kind = "Jmp" ->
         IF step.to \in DOMAIN vm.labels THEN vm.labels[step.to] - 1 ELSE -1
    [] step.kind = "JmpAddr" -> step.addr

\* the match on the Step in VirtualMachine::run: the next pc, or -1 when
\* the label is not in the index (todo!)
NextPc(vm, step) ==
  CASE step.kind = "Next" -> vm.pc + 1
    [] step.kind = "Jmp" ->
         IF step.to \in DOMAIN vm.labels THEN vm.labels[step.to] ELSE -1
    [] step.kind = "JmpAddr" -> step.addr

\* one iteration of the loop of VirtualMachine::run
RunStep ==
  /\ phase = "running"
  /\ pc < Len(script)
  /\ Len(trace) < MaxSteps
  /\ LET o == RunNext(Vm)
         to == NextPc(Vm, o.step)
         op == script[pc + 1].op
     IN  /\ stack' = o.stack
         /\ locals' = o.locals
         /\ heap' = o.heap
         /\ IF o.fault # "none"
            THEN phase' = "fault" /\ fault' = o.fault /\ pc' = pc
            ELSE IF to = -1
            THEN phase' = "fault" /\ fault' = "Unexpected label" /\ pc' = pc
            ELSE phase' = phase /\ fault' = fault /\ pc' = to
         /\ calls' = IF op = "Call" THEN Append(calls, pc) ELSE calls
         /\ frames' = IF op = "Call" THEN Append(frames, pc)
                       ELSE IF op = "Ret" /\ frames # <<>>
                       THEN SubSeq(frames, 1, Len(frames) - 1)
                       ELSE frames
  /\ trace' = Append(trace, pc)
  /\ UNCHANGED <<threads, COUNTER, EPOCH, clock, ids, profile, expr, script, labels, builtins, ops, ret>>

\* the loop ending one instruction before the end of the program
RunReturnEarly ==
  /\ phase = "running"
  /\ pc >= Len(script) - 1
  /\ phase' = "done"
  /\ UNCHANGED <<threads, COUNTER, EPOCH, clock, ids, profile, expr, script, pc, stack, labels, locals, builtins,
                 heap, fault, calls, frames, trace, ops, ret>>

\* the loop of VirtualMachine::run ends and run returns Ok(())
RunReturn ==
  /\ phase = "running"
  /\ pc >= Len(script)
  /\ phase' = "done"
  /\ UNCHANGED <<threads, COUNTER, EPOCH, clock, ids, profile, expr, script, pc, stack, labels, locals, builtins,
                 heap, fault, calls, frames, trace, ops, ret>>

Next == CompileStep \/ VmNew \/ RunStep \/ RunReturn

Spec == Init /\ [][Next]_vars

(***************************************************************************)
(* A Stack on its own: Stack::new(size), then any operations.              *)
(***************************************************************************)
StackValues == {Number(FInt(7)), Bool(TRUE)}

\* Stack::new(size) after k <= size - 1 calls of push(Null): each stores a
\* Null where a Null was and advances the cursor by one
Filled(size, k) == [StackNew(size) EXCEPT !.pos = k]

InitStack ==
  /\ profile \in {"debug", "release"}
  /\ phase = "stack"
  /\ expr = ExprNoop
  /\ script = <<>>
  /\ \/ \E size \in 0 .. MaxStackSize : stack = StackNew(size)
     \/ \E k \in {StackSize - 3, StackSize - 2} : stack = Filled(StackSize, k)
  /\ COUNTER = 0
  /\ NoVm

\* the operation named name was called with arg and yielded r
Applied(name, arg, r) ==
  /\ phase = "stack"
  /\ Len(ops) < MaxOps
  /\ ops' = Append(ops, name)
  /\ ret' = [arg |-> arg, item |-> r.item, fault |-> r.fault]
  /\ stack' = r.stack
  /\ fault' = r.fault
  /\ phase' = IF r.fault # "none" THEN "fault" ELSE phase
  /\ UNCHANGED <<threads, COUNTER, EPOCH, clock, ids, profile, expr, script, pc, labels, locals, builtins, heap,
                 calls, frames, trace>>

PushOp == \E v \in StackValues : Applied("push", v, StackPush(stack, v, profile))
PopOp == Applied("pop", Null, StackPop(stack))
ClearOp == \E n \in 1 .. 2 : Applied("clear", Addr(n), StackClear(stack, n))
PushTopOp == \E a \in 1 .. 2 : Applied("push_top", Addr(a), StackPushTop(stack, Addr(a), profile))
PopTopOp == Applied("pop_top", Null, StackPopTop(stack, profile))

NextStack == PushOp \/ PopOp \/ ClearOp \/ PushTopOp \/ PopTopOp

SpecStack == InitStack /\ [][NextStack]_vars

(***************************************************************************)
(* Uuid::new on its own, on one thread.  Instants are nanoseconds on the   *)
(* monotonic clock; between two readings the clock stands still or         *)
(* advances.  COUNTER is a process-wide static: a run starts with the      *)
(* value that the calls made before it left.                               *)
(***************************************************************************)
U16Modulus == 65536

\* Uuid::new(): fetch_add(1) on the AtomicU16 wraps; the clock is read after
\* the counter; checked_duration_since is None when the reading is before
\* EPOCH, and EPOCH is then replaced and nanos is 0.  The u128 wrapping_add
\* does not wrap on the values explored
UuidCall ==
  /\ phase = "uuid"
  /\ Len(ids) < MaxIds
  /\ \E d \in {0, 1, U16Modulus - 1} :
       LET count == COUNTER
           reading == clock + d
           nanos == IF reading >= EPOCH THEN reading - EPOCH ELSE 0
       IN  /\ COUNTER' = (COUNTER + 1) % U16Modulus
           /\ clock' = reading
           /\ EPOCH' = IF reading >= EPOCH THEN EPOCH ELSE reading
           /\ ids' = Append(ids, nanos + count)
  /\ UNCHANGED <<threads, profile, phase, expr, script, pc, stack, labels, locals,
                 builtins, heap, fault, calls, frames, trace, ops, ret>>

InitUuid ==
  /\ profile \in {"debug", "release"}
  /\ phase = "uuid"
  /\ expr = ExprNoop
  /\ script = <<>>
  /\ stack = StackNew(0)
  /\ COUNTER \in {0, U16Modulus - 2, U16Modulus - 1}
  /\ NoVm

SpecUuid == InitUuid /\ [][UuidCall]_vars

\* Uuid::new() on thread t, in the two steps other threads can come between:
\* the fetch_add on the shared COUNTER, then the rest: EPOCH.with, which on
\* a thread's first use runs the initialiser Instant::now(), the reading of
\* the clock, and the sum.  The clock is one monotonic clock for all threads
UuidNewThread(t) ==
  /\ phase = "uuid"
  /\ \/ /\ threads[t].at = "idle"
        /\ Len(ids) + Cardinality({u \in DOMAIN threads : threads[u].at = "fetched"})
             < MaxIds
        /\ COUNTER' = (COUNTER + 1) % U16Modulus
        /\ threads' = [threads EXCEPT ![t].at = "fetched", ![t].count = COUNTER]
        /\ UNCHANGED <<clock, ids>>
     \/ /\ threads[t].at = "fetched"
        /\ \E d0, d \in {0, 1} :
             LET first == clock + d0
                 epoch == IF threads[t].EPOCH.some THEN threads[t].EPOCH.value ELSE first
                 reading == (IF threads[t].EPOCH.some THEN clock ELSE first) + d
                 nanos == IF reading >= epoch THEN reading - epoch ELSE 0
                 id == nanos + threads[t].count
             IN  /\ clock' = reading
                 /\ ids' = Append(ids, id)
                 /\ threads' = [threads EXCEPT
                                  ![t].at = "idle",
                                  ![t].EPOCH = [some |-> TRUE,
                                                value |-> IF reading >= epoch THEN epoch
                                                          ELSE reading],
                                  ![t].ids = Append(@, id)]
        /\ UNCHANGED COUNTER
  /\ UNCHANGED <<EPOCH, profile, phase, expr, script, pc, stack, labels, locals,
                 builtins, heap, fault, calls, frames, trace, ops, ret>>

SpecThreads == InitUuid /\ [][\E t \in DOMAIN threads : UuidNewThread(t)]_vars

(***************************************************************************)
(* Properties.                                                             *)
(***************************************************************************)

\* C2: Stack::pop with the cursor at position zero is a fatal fault: it
\* returns no value and leaves the stack as it was, and the cursor never
\* goes below zero, whatever pushes and pops emptied the stack before.
C2_PopEmptyIsFault ==
  /\ [](stack.pos >= 0)
  /\ [][(phase = "stack" /\ stack.pos = 0 /\ ops' = Append(ops, "pop"))
          => /\ phase' = "fault"
             /\ fault' = "Stack underflow"
             /\ ret'.fault # "none"
             /\ stack' = stack]_vars

\* a pop faulted on a stack that a push and a pop had emptied
C2_Witness ==
  /\ phase = "fault"
  /\ fault = "Stack underflow"
  /\ stack.pos = 0
  /\ Len(ops) = 3
  /\ ops[1] = "push" /\ ops[2] = "pop" /\ ops[3] = "pop"

\* C3 (as claimed): Stack::push succeeds whenever fewer values than the
\* configured capacity are on the operand stack, and faults at capacity.
C3_PushBelowCapacity ==
  [][(phase = "stack" /\ ops' = Append(ops, "push"))
       => IF stack.pos < StackLen(stack)
          THEN ret'.fault = "none" /\ stack'.pos = stack.pos + 1
          ELSE ret'.fault # "none"]_vars

\* C3 (amended): Stack::push stores the value at the cursor and advances the
\* cursor by one whenever fewer than capacity - 1 values are on the operand
\* stack (254 for the VM's stack of 255 slots, whose last slot is reserved),
\* and is a fatal fault that leaves the stack as it was, never a truncation
\* or an overwrite, when capacity - 1 values are on it.
C3_PushBelowReservedSlot ==
  [][(phase = "stack" /\ ops' = Append(ops, "push"))
       => IF stack.pos < StackLen(stack) - 1
          THEN /\ phase' = "stack"
               /\ ret'.fault = "none"
               /\ stack'.pos = stack.pos + 1
               /\ stack'.items = [stack.items EXCEPT ![stack.pos] = ret'.arg]
          ELSE /\ phase' = "fault"
               /\ ret'.fault # "none"
               /\ stack' = stack]_vars

\* the VM-sized stack took its 254th value and faulted on the 255th
C3_Witness ==
  /\ phase = "fault"
  /\ fault = "Stack overflow"
  /\ StackLen(stack) = StackSize
  /\ stack.pos = StackSize - 1
  /\ stack.items[StackSize - 2] \in StackValues
  /\ ops = <<"push", "push">>

\* the Rust operator a BinaryOperator stands for
OperatorSymbol(op) ==
  CASE op = "Add" -> "+" [] op = "Sub" -> "-" [] op = "Mul" -> "*"
    [] op = "Div" -> "/" [] op = "Mod" -> "%" [] op = "Pow" -> "powf"
    [] op = "BOr" -> "|" [] op = "BAnd" -> "&"
    [] op = "LShift" -> "<<" [] op = "RShift" -> ">>"
    [] op = "Eq" -> "==" [] op = "NEq" -> "!=" [] op = "Lt" -> "<"
    [] op = "LtEq" -> "<=" [] op = "Gt" -> ">" [] op = "GtEq" -> ">="

\* the value of `a op b` for two numbers, a on the left
LeftOpRight(op, a, b) ==
  CASE op \in {"Add", "Sub", "Mul", "Div", "Mod", "Pow"} ->
         Number(Arith(OperatorSymbol(op), a, b))
    [] op \in {"BOr", "BAnd", "LShift", "RShift"} ->
         Number(FInt(ArithFn(OperatorSymbol(op), AsU64(a), AsU64(b))))
    [] OTHER -> Bool(Compare(OperatorSymbol(op), <<>>, Number(a), Number(b)))

\* the conditional a program of IfPrograms holds
TheIf(e) == IF e.kind = "If" THEN e ELSE e.exprs[1]

\* the program is a conditional on a direct Eq or Lt of two number literals
IsShortcutIf(e) ==
  /\ e \in IfPrograms
  /\ TheIf(e).condition.op \in {"Eq", "Lt"}

\* C1: lowering (op a b) on two number literals pushes b, then a, then the
\* operator's instruction, and running it leaves `a op b` (a on the left) as
\* the only value on the stack; the JmpEq or JmpLt of the if-shortcut jumps
\* exactly when `a op b` holds.
C1_LeftOperandFirst ==
  /\ [](expr \in BinaryPrograms =>
          /\ phase # "fault"
          /\ phase \in {"compiled", "running", "done"} =>
               script = <<LdF64(expr.rhs.f), LdF64(expr.lhs.f), Ins(expr.op)>>
          /\ phase = "done" =>
               /\ stack.pos = 1
               /\ stack.items[0] = LeftOpRight(expr.op, expr.lhs.f, expr.rhs.f))
  /\ [][(phase = "running" /\ IsShortcutIf(expr) /\ pc = 2 /\ trace' # trace)
          => LET c == TheIf(expr).condition
                 jmp == script[pc + 1]
             IN  /\ jmp.op = (IF c.op = "Eq" THEN "JmpEq" ELSE "JmpLt")
                 /\ script[1] = LdF64(c.rhs.f) /\ script[2] = LdF64(c.lhs.f)
                 /\ phase' = "running"
                 /\ stack'.pos = 0
                 /\ pc' = IF LeftOpRight(c.op, c.lhs.f, c.rhs.f).b
                          THEN labels[jmp.label] ELSE pc + 1]_vars

\* 3 - (-2) ran to 5
C1_Witness ==
  /\ phase = "done"
  /\ expr = ExprBinaryOp(ExprNumber(FInt(3)), "Sub", ExprNumber(FInt(-2)))
  /\ stack.pos = 1
  /\ stack.items[0] = Number(FInt(5))

\* the loop of VirtualMachine::run is about to execute an instruction op
Executes(op) ==
  /\ phase = "running"
  /\ pc < Len(script)
  /\ script[pc + 1].op = op
  /\ trace' = Append(trace, pc)

\* the value in the reserved last slot of the VM's stack
ReservedSlot(s) == s.items[StackLen(s) - 1]

\* C4: a Call at position p stores Addr(p + 1) in the reserved top slot and
\* transfers control to the callee's label; a Ret the callee executes with
\* no other Call executed in between sets the pc to exactly p + 1.
C4_CallRetReturnsAfterCall ==
  /\ [][Executes("Call") =>
          /\ ReservedSlot(stack') = Addr(pc + 1)
          /\ stack'.pos = stack.pos
          /\ script[pc + 1].label \in DOMAIN labels =>
               /\ phase' = "running"
               /\ pc' = labels[script[pc + 1].label]
               /\ script[pc'] = InsLabel("Label", script[pc + 1].label)]_vars
  /\ [][(Executes("Ret") /\ frames # <<>> /\ frames[Len(frames)] = calls[Len(calls)])
          => /\ phase' = "running"
             /\ pc' = calls[Len(calls)] + 1]_vars

\* (fun f () 1) (f): the call of f returned to the position after the Call
C4_Witness ==
  /\ phase = "running"
  /\ expr = ExprCompound(<<ExprFunction("f", <<>>, ExprNumber(FInt(1))),
                           ExprCall("f", None)>>)
  /\ Len(calls) = 1
  /\ frames = <<>>
  /\ script[trace[Len(trace)] + 1].op = "Ret"
  /\ pc = calls[1] + 1

\* C5: when a callee entered by a Call at p executes another Call at q
\* before its own Ret, the reserved slot is overwritten with Addr(q + 1),
\* and after the inner Ret the Ret of the outer function jumps to q + 1
\* again, not to p + 1: the outer return address is lost.
C5_NestedCallLosesOuterReturn ==
  /\ [][(Executes("Call") /\ frames # <<>>)
          => /\ ReservedSlot(stack) = Addr(calls[Len(calls)] + 1)
             /\ ReservedSlot(stack') = Addr(pc + 1)]_vars
  /\ [][(Executes("Ret") /\ frames # <<>> /\ frames[Len(frames)] # calls[Len(calls)])
          => /\ phase' = "running"
             /\ pc' = calls[Len(calls)] + 1
             /\ pc' # frames[Len(frames)] + 1
             /\ ReservedSlot(stack') = Addr(calls[Len(calls)] + 1)]_vars

\* f, called at 0, called g at 4; after g's Ret, f's Ret went to 5 again
C5_Witness ==
  /\ phase = "running"
  /\ script = ScriptNested
  /\ calls = <<0, 4>>
  /\ frames = <<>>
  /\ Len(trace) >= 2
  /\ script[trace[Len(trace)] + 1].op = "Ret"
  /\ trace[Len(trace)] = 6
  /\ pc = 5

\* C6 (as claimed): a Label instruction reached by falling through from the
\* preceding instruction has no effect: the operand stack, the reserved slot
\* and the locals are unchanged, the pc advances by one, and nothing faults.
C6_LabelIsZeroEffect ==
  [][Executes("Label")
       => /\ phase' = "running"
          /\ fault' = "none"
          /\ pc' = pc + 1
          /\ stack' = stack
          /\ locals' = locals]_vars

\* the two branches of a conditional with a fallthrough, as the strings they
\* load
BranchTaken(e) ==
  LET c == TheIf(e).condition
  IN  IF Compare(OperatorSymbol(c.op), <<>>, Number(c.lhs.f), Number(c.rhs.f))
      THEN StrOne ELSE StrOther

\* C7 (as claimed): running the lowered code of a conditional with a
\* fallthrough branch executes exactly one branch, the body when the
\* condition holds and the fallthrough otherwise, and then continues after
\* the end label without a fault, whichever branch was taken.
C7_OneBranchThenContinue ==
  (expr \in IfPrograms /\ TheIf(expr).fallthrough.some)
    => /\ phase # "fault"
       /\ phase = "done" =>
            /\ heap = <<BranchTaken(expr)>>
            /\ stack.items[0] = String(1)
            /\ stack.pos = IF expr.kind = "If" THEN 1 ELSE 2

\* C8 (as claimed): a variable defined inside an if body or an if
\* fallthrough is bound only in that branch's child scope: a reference to it
\* in the surrounding scope after the if, or in the other branch, is an
\* undefined-variable compile fault.
C8_BranchLocalDoesNotLeak ==
  (expr \in LeakPrograms /\ phase # "source")
    => /\ phase = "fault"
       /\ fault = "Undefined variable"
       /\ script = <<>>

\* C9 (as claimed): defining x inside an if body when x is already defined
\* in an enclosing scope is not a compile fault; the reference to x after
\* the if loads the outer local, whose value the store in the branch did
\* not change.
C9_ShadowingLaw ==
  expr \in ShadowPrograms
    => /\ phase # "fault"
       /\ phase = "done" => stack.items[stack.pos - 1] = Number(FInt(1))

\* C10: defining the same variable name a second time in the same scope is
\* a fatal compile-time fault: the lowering aborts, no program is produced,
\* and nothing runs.
C10_RedefinitionIsCompileFault ==
  (expr \in DuplicatePrograms /\ phase # "source")
    => /\ phase = "fault"
       /\ fault = "Duplicate variable"
       /\ script = <<>>
       /\ trace = <<>>

\* (var x 1) (var x 2) aborted the lowering
C10_Witness ==
  /\ expr = ExprCompound(<<VarX(1), VarX(2)>>)
  /\ phase = "fault"
  /\ fault = "Duplicate variable"
  /\ script = <<>>

\* C11: variables and parameters are resolved in separate namespaces: with
\* x bound both as a parameter and as a variable, RefVar loads the
\* variable's local and RefParam the parameter's; a name bound only as a
\* parameter is an undefined variable, and a name bound only as a variable
\* an undefined parameter.
C11_SeparateNamespaces ==
  /\ (expr = ParamProgram.both /\ phase # "source")
       => /\ phase # "fault" \/ script # <<>>
          /\ Len(script) = 9
          /\ script[3].op = "LdLoc" /\ script[5].op = "StLoc"
          /\ script[3].local # script[5].local
          /\ script[6] = InsLocal("LdLoc", script[5].local)
          /\ script[7] = InsLocal("LdLoc", script[3].local)
  /\ (expr = ParamProgram.param_as_var /\ phase # "source")
       => phase = "fault" /\ fault = "Undefined variable" /\ script = <<>>
  /\ (expr = ParamProgram.var_as_param /\ phase # "source")
       => phase = "fault" /\ fault = "Undefined parameter" /\ script = <<>>

\* (fun f (x) (var x 1) x x) was lowered with two locals for x
C11_Witness ==
  /\ expr = ParamProgram.both
  /\ phase = "compiled"
  /\ script[6].op = "LdLoc" /\ script[7].op = "LdLoc"
  /\ script[6].local # script[7].local

\* C12 (as claimed): lowering a program in which two different functions
\* each declare a parameter of the same name succeeds, and binds the name to
\* two different locals.
C12_ParamsArePerFunction ==
  (expr = ParamProgram.same_name /\ phase # "source")
    => /\ phase # "fault" \/ script # <<>>
       /\ Len(script) = 12
       /\ script[3].op = "LdLoc" /\ script[9].op = "LdLoc"
       /\ script[3].local # script[9].local

\* C13 (as claimed): no instruction from a function's marker to its end
\* label executes unless a Call of that function's label has executed.  (A
\* definition is a Jmp, the marker after it, and a Ret before the marker of
\* the Jmp's label.)
C13_BodyRunsOnlyAfterOwnCall ==
  \A i \in DOMAIN script :
    LET IsFn == /\ i + 1 <= Len(script)
                /\ script[i].op = "Jmp" /\ script[i + 1].op = "Label"
                /\ \E j \in i + 2 .. Len(script) :
                     /\ script[j] = InsLabel("Label", script[i].label)
                     /\ script[j - 1].op = "Ret"
        End == CHOOSE j \in i + 2 .. Len(script) :
                 script[j] = InsLabel("Label", script[i].label)
        Called == \E k \in DOMAIN calls :
                    script[calls[k] + 1].label = script[i + 1].label
    IN  (IsFn /\ ~Called)
          => \A k \in DOMAIN trace : trace[k] < i \/ trace[k] > End - 1

\* C13 (amended): execution that reaches a lowered function definition
\* jumps over it: every marker of a function's label is lowered as a
\* definition (a Jmp, the marker after it, and a Ret before the marker of the
\* Jmp's label), the leading Jmp goes to the position after the end label,
\* and no instruction from the marker to the end label executes unless a
\* Call of the function's label, or of the label of a function defined
\* between the two, has executed.
C13_FunctionBodyIsJumpedOver ==
  /\ [](\A m \in DOMAIN script :
          LET fns == GetFns(expr, 0).functions
          IN  (script[m].op = "Label" /\ \E n \in DOMAIN fns : fns[n] = script[m].label)
                => /\ m > 1
                   /\ script[m - 1].op = "Jmp"
                   /\ \E j \in m + 1 .. Len(script) :
                        /\ script[j] = InsLabel("Label", script[m - 1].label)
                        /\ script[j - 1].op = "Ret")
  /\ [](\A i \in DOMAIN script :
          LET IsFn == /\ i + 1 <= Len(script)
                      /\ script[i].op = "Jmp" /\ script[i + 1].op = "Label"
                      /\ \E j \in i + 2 .. Len(script) :
                           /\ script[j] = InsLabel("Label", script[i].label)
                           /\ script[j - 1].op = "Ret"
              End == CHOOSE j \in i + 2 .. Len(script) :
                       script[j] = InsLabel("Label", script[i].label)
              Called == \E k \in DOMAIN calls : \E m \in i + 1 .. End :
                          script[m] = InsLabel("Label", script[calls[k] + 1].label)
          IN  (IsFn /\ ~Called)
                => \A k \in DOMAIN trace : trace[k] < i \/ trace[k] > End - 1)
  /\ [][\A i \in DOMAIN script :
          LET IsFn == /\ i + 1 <= Len(script)
                      /\ script[i].op = "Jmp" /\ script[i + 1].op = "Label"
                      /\ \E j \in i + 2 .. Len(script) :
                           /\ script[j] = InsLabel("Label", script[i].label)
                           /\ script[j - 1].op = "Ret"
              End == CHOOSE j \in i + 2 .. Len(script) :
                       script[j] = InsLabel("Label", script[i].label)
          IN  (IsFn /\ Executes("Jmp") /\ pc = i - 1)
                => phase' = "running" /\ pc' = End]_vars

\* two functions that are never called: the run executed the two leading
\* jumps and nothing else
C13_Witness ==
  /\ expr = ParamProgram.other_name
  /\ phase = "done"
  /\ trace = <<0, 6>>
  /\ pc = Len(script)
  /\ stack.pos = 0

\* C14: the pre-scan gives every function definition, nested ones included,
\* a label before the lowering starts: a call of a user function lowers to
\* Call of that function's label whether it stands before the definition,
\* after it or inside the function's own body, and only a name the pre-scan
\* did not find lowers to CallF.
C14_PreScanResolvesCalls ==
  /\ (phase \in {"compiled", "running", "done"} /\ expr.kind # "Noop")
       => LET fns == GetFns(expr, 0).functions
          IN  \A i \in DOMAIN script :
                /\ script[i].op = "Call"
                     => \E n \in DOMAIN fns :
                          /\ script[i].label = fns[n]
                          /\ \E m \in DOMAIN script :
                               script[m] = InsLabel("Label", fns[n])
                /\ script[i].op = "CallF" => script[i].name \notin DOMAIN fns
  /\ (expr = FnProgram.nested /\ phase # "source")
       => /\ phase # "fault" \/ script # <<>>
          /\ Len(script) = 14
          /\ script[3].op = "Label" /\ script[5].op = "Label"
          /\ script[3].label # script[5].label
          /\ script[3].label = GetFns(expr, 0).functions["f"]
          /\ script[5].label = GetFns(expr, 0).functions["g"]
          /\ script[1] = InsLabel("Call", script[5].label)
          /\ script[9] = InsLabel("Call", script[3].label)
          /\ script[10] = InsLabel("Call", script[5].label)
          /\ script[13] = InsLabel("Call", script[3].label)
          /\ script[14] = InsName("CallF", "h")

\* the program with g nested in f was lowered; its first instruction is the
\* call of g that precedes both definitions
C14_Witness ==
  /\ expr = FnProgram.nested
  /\ phase = "compiled"
  /\ script[1].op = "Call"
  /\ script[1].label = script[5].label
  /\ script[14].op = "CallF"

\* C15: when two function definitions share a name, the pre-scan map keeps
\* the label minted for the later one (both markers carry it), and at run
\* time every call by that name runs the body of the later definition, never
\* the body of the earlier one.
C15_LastDefinitionWins ==
  (expr \in {FnProgram.twice, FnProgram.twice_after} /\ phase # "source")
    => LET fns == GetFns(expr, 0).functions
           d == IF expr = FnProgram.twice THEN 0 ELSE 1
       IN  /\ phase # "fault"
           /\ DOMAIN fns = {"f"} /\ fns["f"] = 2
           /\ script[2 + d] = InsLabel("Label", 2)
           /\ script[7 + d] = InsLabel("Label", 2)
           /\ script[3 + d] = LdF64(FInt(1)) /\ script[8 + d] = LdF64(FInt(2))
           /\ phase \in {"running", "done"} => labels[2] = 7 + d
           /\ \A k \in DOMAIN trace : trace[k] # 2 + d
           /\ phase = "done"
                => /\ stack.pos = 1 /\ stack.items[0] = Number(FInt(2))
                   /\ \E k \in DOMAIN trace : trace[k] = 7 + d

\* (fun f () 1) (fun f () 2) (f) ran to 2
C15_Witness ==
  /\ expr = FnProgram.twice
  /\ phase = "done"
  /\ calls = <<10>>
  /\ stack.pos = 1
  /\ stack.items[0] = Number(FInt(2))

\* C16: the label index maps each label to the offset just after its
\* marker, and every transfer by label (Jmp, Call, a conditional jump whose
\* condition holds) sets the pc to that offset, so the instruction executed
\* next is the one after the marker, never the marker.
C16_JumpLandsAfterMarker ==
  /\ [](phase \in {"running", "done"}
          => /\ DOMAIN labels =
                  {script[i].label : i \in {j \in DOMAIN script : script[j].op = "Label"}}
             /\ \A l \in DOMAIN labels :
                  /\ labels[l] \in 1 .. Len(script)
                  /\ script[labels[l]] = InsLabel("Label", l))
  /\ [][((Executes("Jmp") \/ Executes("Call")) /\ script[pc + 1].label \in DOMAIN labels)
          => /\ phase' = "running"
             /\ pc' = labels[script[pc + 1].label]
             /\ script[pc'] = InsLabel("Label", script[pc + 1].label)]_vars
  /\ [][\A c \in {<<"JmpEq", "==">>, <<"JmpNEq", "!=">>, <<"JmpLt", "<">>,
                  <<"JmpLtEq", "<=">>, <<"JmpGt", ">">>, <<"JmpGtEq", ">=">>} :
          (Executes(c[1]) /\ stack.pos >= 2 /\ script[pc + 1].label \in DOMAIN labels)
            => /\ phase' = "running"
               /\ pc' = IF Compare(c[2], heap, stack.items[stack.pos - 1],
                                   stack.items[stack.pos - 2])
                        THEN labels[script[pc + 1].label]
                        ELSE pc + 1]_vars

\* (if (equal 0 0) "one"): the JmpEq at 2 went to 4, the offset after the
\* marker at 3
C16_Witness ==
  /\ phase = "running"
  /\ expr = ExprIf(CondTrue, ExprString(StrOne), None)
  /\ trace = <<0, 1, 2>>
  /\ script[4].op = "Label"
  /\ pc = 4

\* C17 (as claimed): run executes an instruction only while the pc is below
\* the program length and returns with success as soon as it is not; a
\* program with no jump, call, return or label instruction ends after one
\* step per instruction with the pc equal to the program length.
C17_StraightLineRunsToEnd ==
  /\ [][trace' # trace => (phase = "running" /\ pc < Len(script))]_vars
  /\ [][(phase = "running" /\ pc >= Len(script))
          => (phase' = "done" /\ pc' = pc /\ trace' = trace /\ stack' = stack)]_vars
  /\ []((/\ script # <<>>
         /\ \A i \in DOMAIN script :
              script[i].op \notin {"Jmp", "JmpEq", "JmpNEq", "JmpLt", "JmpLtEq", "JmpGt",
                                   "JmpGtEq", "Call", "CallF", "Ret", "Label"}
         /\ phase \in {"done", "fault"})
          => /\ phase = "done"
             /\ pc = Len(script)
             /\ trace = [i \in 1 .. Len(script) |-> i - 1])

\* C17 (amended): run executes an instruction only while the pc is below
\* the program length and returns with success as soon as it is not; a
\* program with no jump, call, return or label instruction executes its
\* instructions in order, one step each, and either ends with the pc equal to
\* the program length or stops with a fault at the instruction that faulted.
C17_StraightLineRunsToEndOrFault ==
  /\ [][trace' # trace => (phase = "running" /\ pc < Len(script))]_vars
  /\ [][(phase = "running" /\ pc >= Len(script))
          => (phase' = "done" /\ pc' = pc /\ trace' = trace /\ stack' = stack)]_vars
  /\ [](phase = "done" => pc >= Len(script))
  /\ []((/\ script # <<>>
         /\ \A i \in DOMAIN script :
              script[i].op \notin {"Jmp", "JmpEq", "JmpNEq", "JmpLt", "JmpLtEq", "JmpGt",
                                   "JmpGtEq", "Call", "CallF", "Ret", "Label"})
          => /\ phase = "running" => trace = [i \in 1 .. pc |-> i - 1]
             /\ phase = "done"
                  => pc = Len(script) /\ trace = [i \in 1 .. Len(script) |-> i - 1]
             /\ phase = "fault"
                  => pc < Len(script) /\ trace = [i \in 1 .. pc + 1 |-> i - 1])

\* 3 - (-2) ended after its three instructions, one step each
C17_Witness ==
  /\ phase = "done"
  /\ script = <<LdF64(FInt(-2)), LdF64(FInt(3)), Ins("Sub")>>
  /\ trace = <<0, 1, 2>>
  /\ pc = 3

\* C18: a load-constant instruction pushes exactly one value of its variant
\* (Null, Bool(true), Bool(false), Number(v), a String equal to s in a new
\* buffer, Addr(a), the BuiltIn of a registered name), advances the pc by one
\* and leaves the locals unchanged; Nop advances the pc by one and changes
\* nothing else.
C18_LoadPushesOneValue ==
  /\ [][\A op \in {"LdNull", "LdTrue", "LdFalse", "LdF64", "LdStr", "LdAddr", "LdImport"} :
          (/\ Executes(op)
           /\ stack.pos < StackLen(stack) - 1
           /\ op = "LdImport" => script[pc + 1].name \in builtins)
            => LET i == script[pc + 1]
                   v == CASE op = "LdNull" -> Null
                          [] op = "LdTrue" -> Bool(TRUE)
                          [] op = "LdFalse" -> Bool(FALSE)
                          [] op = "LdF64" -> Number(i.f)
                          [] op = "LdStr" -> String(Len(heap) + 1)
                          [] op = "LdAddr" -> Addr(i.addr)
                          [] op = "LdImport" -> BuiltIn(i.name)
               IN  /\ phase' = "running"
                   /\ pc' = pc + 1
                   /\ locals' = locals
                   /\ stack'.pos = stack.pos + 1
                   /\ stack'.items = [stack.items EXCEPT ![stack.pos] = v]
                   /\ heap' = IF op = "LdStr" THEN Append(heap, i.str) ELSE heap]_vars
  /\ [][Executes("Nop")
          => /\ phase' = "running"
             /\ pc' = pc + 1
             /\ stack' = stack /\ locals' = locals /\ heap' = heap]_vars

\* LdStr "one" alone ran: one String on the stack, its buffer holding "one"
C18_Witness ==
  /\ phase = "done"
  /\ script = <<LdStr(StrOne)>>
  /\ pc = 1
  /\ stack.pos = 1
  /\ stack.items[0].tag = "String"
  /\ heap[stack.items[0].ref] = StrOne

\* C19: a CallF or LdImport of a name the registry does not hold is a fatal
\* fault that ends the run; a CallF of a registered builtin runs it once on
\* the VM's own stack (print pops one value from it) and advances the pc by
\* one; the compiler lowers a call of an unknown name to CallF without
\* rejecting it.
C19_UnknownBuiltinFaultsAtRunTime ==
  /\ [][(Executes("CallF") /\ script[pc + 1].name \notin builtins)
          => /\ phase' = "fault"
             /\ fault' = "Unexpected built-in"
             /\ pc' = pc /\ stack' = stack]_vars
  /\ [][(Executes("LdImport") /\ script[pc + 1].name \notin builtins)
          => /\ phase' = "fault"
             /\ pc' = pc /\ stack' = stack]_vars
  /\ [][phase # "fault"]_vars
  /\ [][(/\ Executes("CallF")
         /\ script[pc + 1].name = "print"
         /\ script[pc + 1].name \in builtins
         /\ stack.pos >= 1
         /\ stack.items[stack.pos - 1].tag \notin {"Addr", "BuiltIn"})
          => /\ phase' = "running"
             /\ pc' = pc + 1
             /\ stack'.pos = stack.pos - 1
             /\ \A k \in 0 .. stack.pos - 2 : stack'.items[k] = stack.items[k]
             /\ locals' = locals]_vars
  /\ []((expr \in {FnProgram.builtin, FnProgram.unknown} /\ phase # "source")
          => /\ phase = "fault" => trace # <<>>
             /\ script = <<LdF64(FInt(1)),
                           InsName("CallF", expr.exprs[2].name),
                           LdF64(FInt(2))>>)

\* 1 (h) 2 was lowered, ran its first instruction and faulted on the CallF
C19_Witness ==
  /\ expr = FnProgram.unknown
  /\ phase = "fault"
  /\ fault = "Unexpected built-in"
  /\ trace = <<0, 1>>
  /\ pc = 1
  /\ stack.pos = 1

\* C20: two values are equal exactly when they are of the same variant, not
\* BuiltIn, with equal payloads (no number equals NaN): Eq pushes that,
\* NEq its negation, and JmpEq jumps exactly then; two BuiltIn values are
\* never equal, even two handles of the same registered function.
C20_ValueEquality ==
  [][\A op \in {"Eq", "NEq", "JmpEq"} :
       (/\ Executes(op)
        /\ stack.pos >= 2
        /\ op = "JmpEq" => script[pc + 1].label \in DOMAIN labels)
         => LET a == stack.items[stack.pos - 1]
                b == stack.items[stack.pos - 2]
                same == /\ a.tag = b.tag
                        /\ CASE a.tag = "Null" -> TRUE
                             [] a.tag = "Addr" -> a.addr = b.addr
                             [] a.tag = "Bool" -> a.b = b.b
                             [] a.tag = "Number" ->
                                  ~IsNaN(a.f) /\ ~IsNaN(b.f) /\ a.f = b.f
                             [] a.tag = "String" -> heap[a.ref] = heap[b.ref]
                             [] a.tag = "BuiltIn" -> FALSE
            IN  /\ phase' = "running"
                /\ op = "Eq" => /\ stack'.pos = stack.pos - 1
                                /\ stack'.items[stack.pos - 2] = Bool(same)
                                /\ pc' = pc + 1
                /\ op = "NEq" => /\ stack'.pos = stack.pos - 1
                                 /\ stack'.items[stack.pos - 2] = Bool(~same)
                                 /\ pc' = pc + 1
                /\ op = "JmpEq" => /\ stack'.pos = stack.pos - 2
                                   /\ pc' = IF same THEN labels[script[pc + 1].label]
                                            ELSE pc + 1]_vars

\* two handles of the registered print compared with Eq: false
C20_Witness ==
  /\ phase = "done"
  /\ script = <<InsName("LdImport", "print"), InsName("LdImport", "print"), Ins("Eq")>>
  /\ stack.pos = 1
  /\ stack.items[0] = Bool(FALSE)

\* C21: Lt, Gt, LtEq and GtEq push Bool(false), and JmpLt, JmpGt, JmpLtEq
\* and JmpGtEq fall through, whenever one of the two operands is not a
\* Number; none of them faults on such operands.
C21_UnorderedComparesFalse ==
  /\ [][\A op \in {"Lt", "Gt", "LtEq", "GtEq"} :
          (/\ Executes(op)
           /\ stack.pos >= 2
           /\ \/ stack.items[stack.pos - 1].tag # "Number"
              \/ stack.items[stack.pos - 2].tag # "Number")
            => /\ phase' = "running" /\ fault' = "none"
               /\ pc' = pc + 1
               /\ stack'.pos = stack.pos - 1
               /\ stack'.items[stack.pos - 2] = Bool(FALSE)]_vars
  /\ [][\A op \in {"JmpLt", "JmpGt", "JmpLtEq", "JmpGtEq"} :
          (/\ Executes(op)
           /\ stack.pos >= 2
           /\ \/ stack.items[stack.pos - 1].tag # "Number"
              \/ stack.items[stack.pos - 2].tag # "Number")
            => /\ phase' = "running" /\ fault' = "none"
               /\ pc' = pc + 1
               /\ stack'.pos = stack.pos - 2]_vars

\* "one" <= 3: false
C21_Witness ==
  /\ phase = "done"
  /\ script = <<LdF64(FInt(3)), LdStr(StrOne), Ins("LtEq")>>
  /\ stack.pos = 1
  /\ stack.items[0] = Bool(FALSE)

\* C22: popping clears the vacated slot: after any sequence of push and pop
\* (clear never called), every operand slot at an index at or above the
\* cursor and below the reserved last slot holds Null.
C22_VacatedSlotsAreNull ==
  (/\ phase \in {"stack", "fault"}
   /\ \A i \in 1 .. Len(ops) : ops[i] # "clear")
    => \A i \in 0 .. StackLen(stack) - 2 :
         i >= stack.pos => stack.items[i] = Null

\* two values pushed and popped again: both slots are Null again
C22_Witness ==
  /\ phase = "stack"
  /\ ops = <<"push", "push", "pop", "pop">>
  /\ StackLen(stack) = 3
  /\ stack.pos = 0
  /\ ret.item \in StackValues
  /\ stack.items[0] = Null /\ stack.items[1] = Null

\* C23: a value round-trips through a local: StLoc x pops the top value v
\* into locals[x], LdLoc x pushes locals[x] and leaves the map as it is, so
\* after a load of v, StLoc x and LdLoc x the value v is on top at the depth
\* it had and locals maps x to v; `(var x 5)` followed by `$x` ends with
\* Number(5) on top.
C23_LocalRoundTrip ==
  /\ [][(Executes("StLoc") /\ stack.pos >= 1)
          => LET x == script[pc + 1].local
             IN  /\ phase' = "running" /\ pc' = pc + 1
                 /\ stack'.pos = stack.pos - 1
                 /\ DOMAIN locals' = DOMAIN locals \cup {x}
                 /\ locals'[x] = stack.items[stack.pos - 1]
                 /\ \A y \in DOMAIN locals \ {x} : locals'[y] = locals[y]]_vars
  /\ [][(/\ Executes("LdLoc")
         /\ script[pc + 1].local \in DOMAIN locals
         /\ stack.pos < StackLen(stack) - 1)
          => LET x == script[pc + 1].local
             IN  /\ phase' = "running" /\ pc' = pc + 1
                 /\ stack'.pos = stack.pos + 1
                 /\ stack'.items[stack.pos] = locals[x]
                 /\ locals' = locals]_vars
  /\ [](LET n == Len(trace)
        IN  (/\ phase \in {"running", "done"}
             /\ n >= 3
             /\ trace[n - 1] = trace[n - 2] + 1 /\ trace[n] = trace[n - 1] + 1
             /\ script[trace[n - 1] + 1].op = "StLoc"
             /\ script[trace[n] + 1].op = "LdLoc"
             /\ script[trace[n] + 1].local = script[trace[n - 1] + 1].local)
              => LET ld == script[trace[n - 2] + 1]
                     x == script[trace[n] + 1].local
                     top == stack.items[stack.pos - 1]
                 IN  /\ stack.pos >= 1
                     /\ x \in DOMAIN locals
                     /\ locals[x] = top
                     /\ ld.op = "LdNull" => top = Null
                     /\ ld.op = "LdTrue" => top = Bool(TRUE)
                     /\ ld.op = "LdFalse" => top = Bool(FALSE)
                     /\ ld.op = "LdF64" => top = Number(ld.f)
                     /\ ld.op = "LdAddr" => top = Addr(ld.addr)
                     /\ ld.op = "LdImport" => top = BuiltIn(ld.name)
                     /\ ld.op = "LdStr" => top.tag = "String" /\ heap[top.ref] = ld.str)
  /\ [](phase = "done" /\ expr = ExprCompound(<<VarX(5), ExprRefVar("x")>>)
          => /\ stack.pos = 1
             /\ stack.items[0] = Number(FInt(5))
             /\ \E x \in DOMAIN locals : locals = (x :> Number(FInt(5))))

\* `(var x 5) $x` has run to its end
C23_Witness ==
  /\ phase = "done"
  /\ expr = ExprCompound(<<VarX(5), ExprRefVar("x")>>)
  /\ Len(trace) = 3
  /\ stack.items[0] = Number(FInt(5))

C25_StringsAreAliased ==
  /\ [][(/\ Executes("LdLoc")
         /\ script[pc + 1].local \in DOMAIN locals
         /\ locals[script[pc + 1].local].tag = "String")
          => /\ stack'.items[stack.pos] = locals[script[pc + 1].local]
             /\ heap' = heap]_vars
  /\ [][(/\ Executes("StLoc")
         /\ stack.pos >= 1
         /\ stack.items[stack.pos - 1].tag = "String")
          => /\ locals'[script[pc + 1].local] = stack.items[stack.pos - 1]
             /\ heap' = heap]_vars
  /\ [][(/\ Executes("CallF")
         /\ script[pc + 1].name = "append" /\ "append" \in builtins
         /\ stack.pos >= 2
         /\ stack.items[stack.pos - 1].tag = "String"
         /\ stack.items[stack.pos - 2].tag = "String"
         /\ stack.items[stack.pos - 1].ref # stack.items[stack.pos - 2].ref)
          => LET rhs == stack.items[stack.pos - 1]
                 lhs == stack.items[stack.pos - 2]
             IN  /\ phase' = "running"
                 /\ stack'.pos = stack.pos - 1
                 /\ stack'.items[stack.pos - 2] = lhs
                 /\ locals' = locals
                 /\ \A x \in DOMAIN locals :
                      (locals[x].tag = "String" /\ locals[x].ref = lhs.ref)
                        => heap'[locals'[x].ref] = heap[lhs.ref] \o heap[rhs.ref]]_vars
  /\ [](\A l \in {1, 2} :
          (/\ phase = "done"
           /\ script = <<LdStr(StrOne), InsLocal("StLoc", 1), InsLocal("LdLoc", 1),
                         InsLocal("StLoc", 2), InsLocal("LdLoc", l), LdStr(StrOther),
                         InsName("CallF", "append"), InsLocal("StLoc", 3)>>)
            => /\ locals[1].tag = "String"
               /\ locals[1] = locals[2]
               /\ heap[locals[1].ref] = StrOne \o StrOther
               /\ heap[locals[2].ref] = StrOne \o StrOther)

\* "one" is held in x and y, "other" was appended through y, and the text
\* read through x is "oneother"
C25_Witness ==
  /\ phase = "done"
  /\ Len(script) = 8
  /\ script[5] = InsLocal("LdLoc", 2)
  /\ script[7] = InsName("CallF", "append")
  /\ Len(trace) = 8
  /\ locals[1].tag = "String"
  /\ heap[locals[1].ref] = StrOne \o StrOther

C27_ArithmeticNeedsNumbers ==
  /\ [][\A op \in {"Add", "Sub", "Mul", "Div", "Mod", "Pow",
                   "BOr", "BAnd", "LShift", "RShift"} :
          (/\ Executes(op)
           /\ stack.pos >= 2
           /\ \/ stack.items[stack.pos - 1].tag # "Number"
              \/ stack.items[stack.pos - 2].tag # "Number")
            => /\ phase' = "fault" /\ fault' # "none"
               /\ pc' = pc
               /\ stack'.pos = stack.pos - 2
               /\ \A i \in 0 .. StackLen(stack) - 2 :
                    i >= stack'.pos => stack'.items[i] = Null]_vars
  /\ [][phase # "fault"]_vars
  /\ [][\A op \in {"Add", "Sub", "Mul", "Div", "Mod", "Pow"} :
          (/\ Executes(op)
           /\ stack.pos >= 2
           /\ stack.items[stack.pos - 1].tag = "Number"
           /\ stack.items[stack.pos - 2].tag = "Number")
            => /\ phase' = "running"
               /\ stack'.pos = stack.pos - 1
               /\ stack'.items[stack.pos - 2].tag = "Number"]_vars
  /\ [](phase = "done"
        /\ expr = ExprBinaryOp(ExprNumber(FInt(2)), "Add", ExprNumber(FInt(3)))
          => stack.pos = 1 /\ stack.items[0] = Number(FInt(5)))

\* "one" * 3 has stopped the run at the Mul with both operands popped
C27_Witness ==
  /\ phase = "fault"
  /\ script = <<LdF64(FInt(3)), LdStr(StrOne), Ins("Mul"), Ins("Nop")>>
  /\ pc = 2
  /\ stack.pos = 0

\* C28: when the condition of an if is directly an Eq or Lt expression, the
\* lowering emits the code of the right operand, the code of the left
\* operand and one JmpEq or JmpLt to the body label, and for the comparison
\* no Eq or Lt instruction and no LdTrue; for every other shape of condition
\* it emits the code of the condition, LdTrue and JmpEq to the body label.
\* (Conditionals `(if c "one")` and `(if c "one" "other")`.)
C28_ConditionLowering ==
  (/\ phase \in {"compiled", "running", "done"}
   /\ expr.kind = "If"
   /\ expr.body = ExprString(StrOne))
    => LET c == expr.condition
           direct == c.kind = "BinaryOp" /\ c.op \in {"Eq", "Lt"}
           code(e) == Compile(e).instructions
           operands == IF direct THEN code(c.rhs) \o code(c.lhs) ELSE code(c)
           n == Len(operands)
           jmp == IF direct THEN n + 1 ELSE n + 2
       IN  /\ Len(script) >= jmp + 3
           /\ SubSeq(script, 1, n) = operands
           /\ direct => script[jmp].op = (IF c.op = "Eq" THEN "JmpEq" ELSE "JmpLt")
           /\ ~direct => script[n + 1] = Ins("LdTrue") /\ script[jmp].op = "JmpEq"
           /\ \A i \in jmp + 1 .. Len(script) :
                script[i].op \notin {"Eq", "Lt", "LdTrue", "JmpEq", "JmpLt"}
           /\ \E k \in jmp + 1 .. Len(script) - 1 :
                /\ script[k] = InsLabel("Label", script[jmp].label)
                /\ script[k + 1] = LdStr(StrOne)
                /\ \A i \in jmp + 1 .. Len(script) :
                     (script[i].op = "Label" /\ i # k)
                       => script[i].label # script[jmp].label

\* (if (< 0 3) "one" "other") is lowered to 3, 0, JmpLt
C28_Witness ==
  /\ phase = "compiled"
  /\ expr = ExprIf(ExprBinaryOp(ExprNumber(FInt(0)), "Lt", ExprNumber(FInt(3))),
                   ExprString(StrOne), Some(ExprString(StrOther)))
  /\ script[1] = LdF64(FInt(3))
  /\ script[2] = LdF64(FInt(0))
  /\ script[3].op = "JmpLt"

\* C29 (as claimed): lowering an assignment whose target has no `var`
\* binding on the scope chain is a fatal compile-time fault, also when the
\* name is bound as a parameter or as a variable of an if body that has
\* ended; when the target resolves, the code emitted is the code of the
\* right-hand side followed by StLoc of the local of the binding.
C29_AssignNeedsVarBinding ==
  LET r2 == ExprNumber(FInt(2))
      r23 == ExprBinaryOp(ExprNumber(FInt(2)), "Add", ExprNumber(FInt(3)))
      unbound == {ExprAssign("x", r2), ParamProgram.assign_param}
                   \cup {ExprCompound(<<ExprIf(c, VarX(1), None), ExprAssign("x", r2)>>) :
                           c \in {CondTrue, CondFalse}}
      resolved ==
        { <<ExprCompound(<<VarX(1), ExprAssign("x", r2), ExprRefVar("x")>>), r2>>,
          <<ExprCompound(<<VarX(1), ExprAssign("x", r23), ExprRefVar("x")>>), r23>>,
          <<ExprCompound(<<VarX(1), ExprIf(CondTrue, ExprAssign("x", r2), None)>>), r2>>,
          <<ParamProgram.assign_both, r2>> }
  IN  /\ expr \in unbound
           => /\ phase \in {"source", "fault"}
              /\ phase = "fault" => fault = "Undefined parameter" /\ script = <<>>
      /\ \A t \in resolved :
           expr = t[1]
             => /\ phase # "fault" \/ trace # <<>>
                /\ phase # "source"
                     => LET rhs == Compile(t[2]).instructions
                            n == Len(rhs)
                        IN  \E i, j \in 1 .. Len(script) :
                              /\ i + 1 < j /\ j + n <= Len(script)
                              /\ script[i] = LdF64(FInt(1))
                              /\ script[i + 1].op = "StLoc"
                              /\ SubSeq(script, j, j + n - 1) = rhs
                              /\ script[j + n] = InsLocal("StLoc", script[i + 1].local)
                              /\ \A k \in 1 .. Len(script) :
                                   (script[k].op = "StLoc" /\ k \notin {i + 1, j + n})
                                     => script[k].local # script[i + 1].local

\* C30 (as claimed): identifier generation never collides: every call of
\* Uuid::new on one thread returns a value different from every value it
\* returned before, for any number of calls and any non-decreasing sequence
\* of clock readings.
C30_UuidNeverCollides ==
  \A i, j \in 1 .. Len(ids) : i # j => ids[i] # ids[j]

\* C31 (as claimed): for a conditional without a fallthrough branch whose
\* condition does not hold, no instruction of the body is executed and
\* execution continues after the end label: the run ends without a fault
\* and without the body's value.
C31_FalseConditionSkipsBody ==
  (/\ expr \in IfPrograms
   /\ ~TheIf(expr).fallthrough.some
   /\ BranchTaken(expr) = StrOther)
    => /\ phase # "fault"
       /\ \A i \in 1 .. Len(trace) : script[trace[i] + 1] # LdStr(StrOne)
       /\ phase = "done" =>
            /\ heap = <<>>
            /\ stack.pos = IF expr.kind = "If" THEN 0 ELSE 1

\* C32: the operand stack and the reserved return-address slot never
\* overlap: on a Stack that has the reserved slot (capacity at least 1) the
\* cursor is at most capacity - 1 in every reachable state, push and pop
\* write only indices below capacity - 1, and the last slot is written only
\* by push_top, which writes nothing else.
C32_ReservedSlotIsSeparate ==
  /\ []((phase \in {"stack", "fault"} /\ StackLen(stack) >= 1)
          => stack.pos <= StackLen(stack) - 1)
  /\ [][(ops' # ops /\ StackLen(stack) >= 1)
          => /\ StackLen(stack') = StackLen(stack)
             /\ ops'[Len(ops')] \in {"push", "pop"}
                  => \A i \in 0 .. StackLen(stack) - 1 :
                       stack'.items[i] # stack.items[i] => i < StackLen(stack) - 1
             /\ ReservedSlot(stack') # ReservedSlot(stack)
                  => ops'[Len(ops')] = "push_top"
             /\ ops'[Len(ops')] = "push_top"
                  => /\ stack'.pos = stack.pos
                     /\ \A i \in 0 .. StackLen(stack) - 2 :
                          stack'.items[i] = stack.items[i]]_vars

\* a stack of two slots holds one operand and a return address, and the
\* next push overflowed
C32_Witness ==
  /\ phase = "fault"
  /\ ret.fault = "Stack overflow"
  /\ StackLen(stack) = 2
  /\ stack.pos = 1
  /\ stack.items[0] \in StackValues
  /\ ReservedSlot(stack).tag = "Addr"

\* C33: Call and Ret leave the operand-stack cursor, every operand slot and
\* the locals unchanged: Call changes only the reserved slot (to the address
\* after the Call) and the pc, Ret reads the reserved slot without clearing
\* it, so the slot still holds the same Addr after the return; and no other
\* instruction changes the reserved slot.
C33_CallRetFrameEffect ==
  /\ [][Executes("Call")
          => /\ stack'.pos = stack.pos
             /\ \A i \in 0 .. StackLen(stack) - 2 : stack'.items[i] = stack.items[i]
             /\ ReservedSlot(stack') = Addr(pc + 1)
             /\ locals' = locals
             /\ heap' = heap]_vars
  /\ [][Executes("Ret")
          => /\ stack' = stack
             /\ locals' = locals
             /\ heap' = heap
             /\ ReservedSlot(stack).tag = "Addr"
                  => /\ phase' = "running"
                     /\ pc' = ReservedSlot(stack).addr
                     /\ ReservedSlot(stack') = ReservedSlot(stack)]_vars
  /\ [][(phase = "running" /\ ReservedSlot(stack') # ReservedSlot(stack))
          => Executes("Call")]_vars

\* the second call of the function has returned: an operand is on the
\* stack, a local is set and the reserved slot still holds the return
\* address
C33_Witness ==
  /\ phase = "running"
  /\ Len(calls) = 2
  /\ frames = <<>>
  /\ script[trace[Len(trace)] + 1].op = "Ret"
  /\ stack.pos = 1
  /\ DOMAIN locals = {1}
  /\ ReservedSlot(stack) = Addr(pc)

\* C34: LdLoc of a local that no executed StLoc has stored into is a fatal
\* fault that pushes nothing (only a StLoc puts a local into the store);
\* consequently a call of a lowered function that declares a parameter
\* faults at the LdLoc of its first parameter, the instruction after the
\* function's label marker, because no instruction stores an argument.
C34_UnsetLocalFaults ==
  /\ [](phase \in {"running", "done", "fault"}
          => \A x \in DOMAIN locals :
               \E i \in 1 .. Len(trace) : script[trace[i] + 1] = InsLocal("StLoc", x))
  /\ [][(Executes("LdLoc") /\ script[pc + 1].local \notin DOMAIN locals)
          => /\ phase' = "fault" /\ fault' # "none"
             /\ pc' = pc
             /\ stack' = stack
             /\ locals' = locals]_vars
  /\ [](expr \in {ParamProgram.call_one, ParamProgram.call_two}
          => /\ phase # "done"
             /\ (phase = "fault" /\ trace # <<>>)
                  => /\ Len(calls) = 1
                     /\ trace[Len(trace) - 1] = calls[1]
                     /\ script[calls[1] + 1].op = "Call"
                     /\ script[pc] = InsLabel("Label", script[calls[1] + 1].label)
                     /\ script[pc + 1].op = "LdLoc"
                     /\ stack.pos = 0
                     /\ locals = <<>>)

\* (fun f (x) $x) (f): the call entered f and faulted at the load of x
C34_Witness ==
  /\ phase = "fault"
  /\ expr = ParamProgram.call_one
  /\ Len(calls) = 1
  /\ script[pc + 1].op = "LdLoc"
  /\ fault = "key not found"

\* C35: in the lowering of a call with argument expressions the code of
\* the arguments, in source order, directly precedes the Call/CallF, so a
\* builtin that pops its argument finds it: (print 1) and (print 1 2) run
\* with print registered end without a fault, having executed the loads of
\* the arguments before the CallF.
C35_ArgumentsPrecedeCall ==
  (expr \in {FnProgram.print_arg, FnProgram.print_args} /\ phase # "source")
    => LET args == IF expr = FnProgram.print_arg
                   THEN <<LdF64(FInt(1))>>
                   ELSE <<LdF64(FInt(1)), LdF64(FInt(2))>>
       IN  /\ phase \in {"compiled", "running", "done"}
                => script = args \o <<InsName("CallF", "print")>>
           /\ ~(phase = "fault" /\ "print" \in builtins)
           /\ (phase = "done" /\ "print" \in builtins)
                => trace = [i \in 1 .. Len(args) + 1 |-> i - 1]

\* C36 (as claimed): in every compiled program no two label markers carry
\* the same label, and the label index of the VM has one entry per marker.
C36_MarkersAreDistinct ==
  (expr \in Programs /\ phase \in {"compiled", "running", "done"})
    => LET markers == {i \in DOMAIN script : script[i].op = "Label"}
       IN  /\ \A i, j \in markers : i # j => script[i].label # script[j].label
           /\ phase \in {"running", "done"}
                => Cardinality(DOMAIN labels) = Cardinality(markers)

\* C36: in a compiled program two label markers carry the same label only
\* when both are the markers of function definitions of one name, which all
\* carry the label the pre-scan kept for that name; every other marker has
\* a label of its own.  The label index has one entry per marker in a
\* program whose function definitions have distinct names, and one entry
\* fewer for each definition that repeats a name.
C36_MarkersShareOnlyFunctionLabels ==
  (expr \in Programs /\ phase \in {"compiled", "running", "done"})
    => LET RECURSIVE NDefs(_), NDefsSeq(_, _)
           NDefs(e) ==
             CASE e.kind = "Function" -> 1 + NDefs(e.body)
               [] e.kind = "If" ->
                    NDefs(e.condition) + NDefs(e.body)
                      + (IF e.fallthrough.some THEN NDefs(e.fallthrough.value) ELSE 0)
               [] e.kind = "Call" -> IF e.args.some THEN NDefs(e.args.value) ELSE 0
               [] e.kind \in {"Assign", "Define", "UnaryOp"} -> NDefs(e.expr)
               [] e.kind = "BinaryOp" -> NDefs(e.lhs) + NDefs(e.rhs)
               [] e.kind = "Compound" -> NDefsSeq(e.exprs, 1)
               [] OTHER -> 0
           NDefsSeq(es, i) ==
             IF i > Len(es) THEN 0 ELSE NDefs(es[i]) + NDefsSeq(es, i + 1)
           markers == {i \in DOMAIN script : script[i].op = "Label"}
           fns == GetFns(expr, 0).functions
           repeated == NDefs(expr) - Cardinality(DOMAIN fns)
       IN  /\ \A i, j \in markers :
                (i < j /\ script[i].label = script[j].label)
                  => /\ \E n \in DOMAIN fns : fns[n] = script[i].label
                     /\ script[i - 1].op = "Jmp" /\ script[j - 1].op = "Jmp"
                     /\ repeated > 0
           /\ repeated = 0
                => \A i, j \in markers : i # j => script[i].label # script[j].label
           /\ phase \in {"running", "done"}
                => Cardinality(DOMAIN labels) = Cardinality(markers) - repeated

\* (fun f () 1) (fun f () 2) (f): two markers of one label, one index entry
C36_Witness ==
  /\ expr = FnProgram.twice
  /\ phase = "running"
  /\ script[2].op = "Label" /\ script[7].op = "Label"
  /\ script[2].label = script[7].label
  /\ Cardinality({i \in DOMAIN script : script[i].op = "Label"}) = 4
  /\ Cardinality(DOMAIN labels) = 3

\* C37: each execution of LdStr pushes a String on a buffer allocated by
\* that execution, holding the literal's text, which no value on the stack
\* or in the locals refers to yet; a buffer changes only when the append
\* builtin extends the buffer of its left operand, so a mutation through
\* one handle changes neither what a later execution of the same LdStr
\* pushes nor any String that is not a copy of that handle.
C37_LdStrAllocatesFreshBuffer ==
  /\ [](phase \in {"running", "done", "fault"}
          => /\ \A i \in 0 .. stack.pos - 1 :
                  stack.items[i].tag = "String" => stack.items[i].ref \in 1 .. Len(heap)
             /\ \A x \in DOMAIN locals :
                  locals[x].tag = "String" => locals[x].ref \in 1 .. Len(heap))
  /\ [][(Executes("LdStr") /\ phase' # "fault")
          => /\ heap' = Append(heap, script[pc + 1].str)
             /\ stack'.pos = stack.pos + 1
             /\ stack'.items[stack.pos] = String(Len(heap) + 1)]_vars
  /\ [][/\ Len(heap') >= Len(heap)
        /\ \A r \in 1 .. Len(heap) :
             heap'[r] # heap[r]
               => /\ Executes("CallF") /\ script[pc + 1].name = "append"
                  /\ stack.pos >= 2
                  /\ stack.items[stack.pos - 2] = String(r)
                  /\ \E t \in 1 .. Len(heap') : heap'[r] = heap[r] \o heap'[t]]_vars
  /\ [](\A b \in {LdStr(StrOther), LdStr(StrOne)} :
          (/\ phase = "done"
           /\ script = <<InsLabel("Call", 1), b, InsName("CallF", "append"),
                         InsLocal("StLoc", 1), InsLabel("Call", 1), InsLocal("StLoc", 2),
                         InsLabel("Jmp", 2), InsLabel("Label", 1), LdStr(StrOne),
                         Ins("Ret"), InsLabel("Label", 2)>>)
            => /\ locals[1].tag = "String" /\ locals[2].tag = "String"
               /\ locals[1].ref # locals[2].ref
               /\ heap[locals[1].ref] = StrOne \o b.str
               /\ heap[locals[2].ref] = StrOne)

\* the same LdStr ran twice, the first String was extended by append, and
\* the second still reads one
C37_Witness ==
  /\ phase = "done"
  /\ Len(script) = 11
  /\ script[9] = LdStr(StrOne)
  /\ Len(calls) = 2
  /\ DOMAIN locals = {1, 2}
  /\ locals[1].tag = "String" /\ locals[2].tag = "String"
  /\ heap[locals[1].ref] = StrOne \o StrOne
  /\ heap[locals[2].ref] = StrOne

\* C38: a Ret executed when no Call has executed finds Null in the reserved
\* slot and is a fatal fault, not a jump: the run stops at the Ret with the
\* stack as it was, and stays stopped.
C38_RetWithoutCallFaults ==
  /\ []((phase = "running" /\ calls = <<>>) => ReservedSlot(stack) = Null)
  /\ [][(Executes("Ret") /\ calls = <<>>)
          => /\ phase' = "fault"
             /\ fault' = "not yet implemented"
             /\ pc' = pc
             /\ stack' = stack
             /\ locals' = locals]_vars
  /\ [][phase = "fault" => (phase' = "fault" /\ pc' = pc /\ trace' = trace)]_vars

\* the script that starts with a Ret stopped there
C38_Witness ==
  /\ phase = "fault"
  /\ script = ScriptRet
  /\ calls = <<>>
  /\ trace = <<0>>
  /\ pc = 0
  /\ fault = "not yet implemented"
  /\ ReservedSlot(stack) = Null

\* C39 (as claimed): identifiers minted by Uuid::new on different threads
\* are pairwise distinct, whatever the interleaving of the increments of the
\* shared counter and whatever the threads read from the clock.
C39_ThreadsNeverCollide ==
  \A t, u \in DOMAIN threads :
    t # u => \A i \in DOMAIN threads[t].ids, j \in DOMAIN threads[u].ids :
               threads[t].ids[i] # threads[u].ids[j]

====
